---- MODULE Spec2Model ----
(***************************************************************************)
(* Model of the OpenRouter model-comparison service.                       *)
(*                                                                         *)
(* Part 1: api/models.js, the /api/models serverless handler with its      *)
(* module-level in-memory cache (TTL one hour, stale-on-error fallback).   *)
(* Several invocations of the async handler may be suspended at the same  *)
(* time, each at one of the two awaits of the try block (fetch and         *)
(* response.json()); everything between two awaits runs atomically on the  *)
(* single JavaScript thread.                                               *)
(*                                                                         *)
(* Time: `clock` is what Date.now() / new Date() read, in milliseconds,    *)
(* counted from one millisecond before the process started. It never runs  *)
(* backwards. new Date().toISOString() is an order-preserving, injective   *)
(* rendering of the millisecond value, so updatedAt is kept as that value. *)
(*                                                                         *)
(* Prices: a per-token price is a decimal numeral, mant * 10^-places (the  *)
(* string "0.0000025" is mant 25, places 7); a formatted price is kept in  *)
(* units of 10^-3 dollars per million tokens.                              *)
(***************************************************************************)
EXTENDS Integers, Sequences, FiniteSets, TLC

----------------------------------------------------------------------------
(* Bounds of the model *)

NumInv == 2
    \* handler invocations that can be open at the same time
MaxReqs == 3
    \* invocations started in one behaviour
MaxTicks == 2
    \* clock advances in one behaviour

MaxMant == 110
    \* largest mantissa (in absolute value) of a price numeral given to formatPrice
MinPlaces == 3
MaxPlaces == 12
    \* fewest and most decimals of a price numeral given to formatPrice

Inv == 1 .. NumInv

----------------------------------------------------------------------------
(* api/models.js: constants and pure functions *)

TTL == 60 * 60 * 1000

Null == [null |-> TRUE]

\* The price values this model feeds the handler: pricing.prompt /
\* pricing.completion as the upstream sends them (decimal strings), a
\* non-numeric string, or no value at all.
Dec(mant, places) == [kind |-> "decimal", mant |-> mant, places |-> places]
NoPrice == [kind |-> "undefined"]
TextPrice == [kind |-> "text"]

RECURSIVE Pow10(_)
Pow10(n) == IF n = 0 THEN 1 ELSE 10 * Pow10(n - 1)

\* parseFloat(pricePerToken) || 0: a decimal numeral gives its value,
\* anything else gives NaN, which `|| 0` turns into 0.
ParsePrice(p) == IF p.kind = "decimal" THEN p ELSE Dec(0, 0)

\* The numerals, among those with a mantissa of at most 130 in absolute
\* value and at most 14 decimals, for which the IEEE-754 double product
\* price * 1000000 * 1000 falls just below the decimal tie x.5 it stands
\* for, so that Math.round gives the smaller neighbour.
FloatTieDown == { <<-95, 10>>, <<-65, 10>>, <<105, 10>>, <<125, 10>> }

\* Variant of RoundMilli: Math.floor in place of Math.round
RoundMilliFloor(mant, places) ==
    IF places <= 9
    THEN mant * Pow10(9 - places)
    ELSE mant \div Pow10(places - 9)

\* Math.round(price * 1000000 * 1000): the nearest integer, a tie going to
\* the larger one.
RoundMilli(mant, places) ==
    IF places <= 9
    THEN mant * Pow10(9 - places)
    ELSE LET q == Pow10(places - 9)
         IN  ((2 * mant + q) \div (2 * q))
               - (IF <<mant, places>> \in FloatTieDown THEN 1 ELSE 0)

\* formatPrice(pricePerToken); the result k stands for the number k / 1000.
formatPrice(p) ==
    LET price == ParsePrice(p) IN RoundMilli(price.mant, price.places)

----------------------------------------------------------------------------
(* Strings and JavaScript values                                           *)
(*                                                                         *)
(* A string is the sequence of its characters, each a one-character        *)
(* string. A value that may be undefined is Num(n) or Undefined.           *)

Num(n) == [kind |-> "number", val |-> n]
Undefined == [kind |-> "undefined"]

\* null where a string is expected; no sequence of single characters
\* equals it
NullStr == <<"null">>

Digit == <<"0", "1", "2", "3", "4", "5", "6", "7", "8", "9">>

\* String(n) for an integer n >= 0
RECURSIVE ToStr(_)
ToStr(n) ==
    IF n < 10 THEN <<Digit[n + 1]>>
    ELSE Append(ToStr(n \div 10), Digit[(n % 10) + 1])

\* The binary exponent of the double length / 1000000, for a length of at
\* least 1000000: the e with 2^e <= length / 1000000 < 2^(e + 1)
RECURSIVE BinaryExponent(_)
BinaryExponent(length) ==
    IF length < 2000000 THEN 0 ELSE 1 + BinaryExponent(length \div 2)

\* 2^n modulo 5^6
RECURSIVE Pow2Mod(_)
Pow2Mod(n) == IF n = 0 THEN 1 ELSE (2 * Pow2Mod(n - 1)) % 15625

\* Whether the double length / 1000000, for a length of at least 1000000
\* that is a decimal tie of the second decimal (x.xx5), lies below that
\* tie, so that toFixed(2) gives the smaller neighbour. The division is
\* rounded to 53 significant bits: with e the binary exponent, the double
\* is the multiple of 2^(e - 52) nearest to length / 10^6, which lies below
\* it when the remainder of length * 2^(46 - e) by 5^6 is positive and less
\* than half of 5^6.
Fixed2TieDown(length) ==
    /\ length % 10000 = 5000
    /\ LET r == ((length % 15625) * Pow2Mod(46 - BinaryExponent(length))) % 15625
       IN  r > 0 /\ 2 * r < 15625

\* (length / 1000000).toFixed(2), as the number of hundredths
Fixed2(length) ==
    ((length + 5000) \div 10000) - (IF Fixed2TieDown(length) THEN 1 ELSE 0)

\* (length / 1000).toFixed(0), as a number: the nearest integer, a tie
\* (exact in double arithmetic) going to the larger one
Fixed0(length) == (length + 500) \div 1000

\* formatContextLength(length)
formatContextLength(length) ==
    IF length.kind = "undefined" \/ length.val = 0 THEN NullStr
    ELSE IF length.val >= 1000000
    THEN LET h == Fixed2(length.val)
         IN  ToStr(h \div 100)
               \o <<".", Digit[((h \div 10) % 10) + 1], Digit[(h % 10) + 1], "M">>
    ELSE IF length.val >= 1000
    THEN Append(ToStr(Fixed0(length.val)), "K")
    ELSE ToStr(length.val)

\* The positions of the character c in the string s
Positions(s, c) == { i \in 1 .. Len(s) : s[i] = c }

\* The least element of a non-empty set of integers
Least(S) == CHOOSE i \in S : \A j \in S : i <= j

\* s.split(c) for a one-character separator c: the pieces between the
\* occurrences of c, empty pieces included; a string without c gives the
\* one piece s.
RECURSIVE Split(_, _)
Split(s, c) ==
    IF Positions(s, c) = {} THEN <<s>>
    ELSE LET i == Least(Positions(s, c))
         IN  <<SubSeq(s, 1, i - 1)>> \o Split(SubSeq(s, i + 1, Len(s)), c)

Unknown == <<"u", "n", "k", "n", "o", "w", "n">>

\* Variant of extractProvider: `> 2` in place of `>= 2`
extractProviderTwoSlashes(modelId) ==
    LET parts == Split(modelId, "/")
    IN  IF Len(parts) > 2 THEN parts[1] ELSE Unknown

\* extractProvider(modelId)
extractProvider(modelId) ==
    LET parts == Split(modelId, "/")
    IN  IF Len(parts) >= 2 THEN parts[1] ELSE Unknown

\* extractProvider dereferences model.id: a record without an id makes
\* processModels throw a TypeError.
Transformable(rawModels) ==
    \A k \in 1 .. Len(rawModels) : "id" \in DOMAIN rawModels[k]

\* Whether the object m has the property f with a value other than
\* undefined or null
Has(m, f) == f \in DOMAIN m

UrlPrefix ==
    <<"h", "t", "t", "p", "s", ":", "/", "/", "o", "p", "e", "n", "r", "o",
      "u", "t", "e", "r", ".", "a", "i", "/">>

\* new Date(ms).toISOString(): an order-preserving, injective rendering of
\* the millisecond value, kept as that value
IsoDate(ms) == [iso |-> ms]

\* model.top_provider?.max_completion_tokens is neither undefined nor null
HasMaxOutput(model) ==
    Has(model, "top_provider") /\ Has(model.top_provider, "max_completion_tokens")

\* model.pricing?.[f], undefined when pricing or the price is missing
PricingOf(model, f) ==
    IF Has(model, "pricing") /\ Has(model.pricing, f)
    THEN model.pricing[f] ELSE NoPrice

\* model.architecture?.[f] || orElse
\* modality is a string, falsy when empty; the two modality lists are
\* arrays, which are never falsy.
ArchitectureOf(model, f, orElse) ==
    IF /\ Has(model, "architecture")
       /\ Has(model.architecture, f)
       /\ ~(f = "modality" /\ model.architecture[f] = "")
    THEN model.architecture[f] ELSE orElse

\* The object that the arrow function of processModels builds for one raw
\* record. Strings the code only passes along (description, modalities) are
\* TLA+ strings; id and name are sequences of characters.
Normalized(model) ==
    [id          |-> model.id,
     name        |-> IF Has(model, "name") /\ model.name # <<>>
                     THEN model.name ELSE model.id,
     provider    |-> extractProvider(model.id),
     description |-> IF Has(model, "description") /\ model.description # ""
                     THEN model.description ELSE "",
     contextLength |-> IF Has(model, "context_length") /\ model.context_length # 0
                       THEN model.context_length ELSE 0,
     contextLengthFormatted |->
         formatContextLength(IF Has(model, "context_length")
                             THEN Num(model.context_length) ELSE Undefined),
     maxOutput   |-> IF HasMaxOutput(model)
                        /\ model.top_provider.max_completion_tokens # 0
                     THEN model.top_provider.max_completion_tokens ELSE 0,
     maxOutputFormatted |->
         formatContextLength(IF HasMaxOutput(model)
                             THEN Num(model.top_provider.max_completion_tokens)
                             ELSE Undefined),
     inputPrice  |-> formatPrice(PricingOf(model, "prompt")),
     outputPrice |-> formatPrice(PricingOf(model, "completion")),
     modality    |-> ArchitectureOf(model, "modality", "text->text"),
     inputModalities  |-> ArchitectureOf(model, "input_modalities", <<"text">>),
     outputModalities |-> ArchitectureOf(model, "output_modalities", <<"text">>),
     openRouterUrl |-> UrlPrefix \o model.id,
     createdAt   |-> IF Has(model, "created") /\ model.created # 0
                     THEN IsoDate(model.created * 1000) ELSE Null]

\* processModels(rawModels): rawModels.map(...)
processModels(rawModels) ==
    [k \in 1 .. Len(rawModels) |-> Normalized(rawModels[k])]

\* const result = {updatedAt, totalCount, models} of the handler, built at
\* time t
Result(models, t) ==
    [updatedAt |-> t, totalCount |-> Len(models), models |-> models]

----------------------------------------------------------------------------
(* The synchronization script (scripts/sync-models.js): its own copies of  *)
(* the pure functions, and the object that saveData writes.                *)

\* formatPrice(pricePerToken) of the script
syncFormatPrice(p) ==
    LET price == ParsePrice(p) IN RoundMilli(price.mant, price.places)

\* formatContextLength(length) of the script
syncFormatContextLength(length) ==
    IF length.kind = "undefined" \/ length.val = 0 THEN NullStr
    ELSE IF length.val >= 1000000
    THEN LET h == Fixed2(length.val)
         IN  ToStr(h \div 100)
               \o <<".", Digit[((h \div 10) % 10) + 1], Digit[(h % 10) + 1], "M">>
    ELSE IF length.val >= 1000
    THEN Append(ToStr(Fixed0(length.val)), "K")
    ELSE ToStr(length.val)

\* Variant of syncExtractProvider: `>= 1` in place of `>= 2`
syncExtractProviderAlways(modelId) ==
    LET parts == Split(modelId, "/")
    IN  IF Len(parts) >= 1 THEN parts[1] ELSE Unknown

\* extractProvider(modelId) of the script
syncExtractProvider(modelId) ==
    LET parts == Split(modelId, "/")
    IN  IF Len(parts) >= 2 THEN parts[1] ELSE Unknown

\* The script's processModels throws a TypeError on a record without an id,
\* as the handler's does.
syncTransformable(rawModels) ==
    \A k \in 1 .. Len(rawModels) : "id" \in DOMAIN rawModels[k]

\* The object that the arrow function of the script's processModels builds
syncNormalized(model) ==
    [id          |-> model.id,
     name        |-> IF Has(model, "name") /\ model.name # <<>>
                     THEN model.name ELSE model.id,
     provider    |-> syncExtractProvider(model.id),
     description |-> IF Has(model, "description") /\ model.description # ""
                     THEN model.description ELSE "",
     contextLength |-> IF Has(model, "context_length") /\ model.context_length # 0
                       THEN model.context_length ELSE 0,
     contextLengthFormatted |->
         syncFormatContextLength(IF Has(model, "context_length")
                                 THEN Num(model.context_length) ELSE Undefined),
     maxOutput   |-> IF HasMaxOutput(model)
                        /\ model.top_provider.max_completion_tokens # 0
                     THEN model.top_provider.max_completion_tokens ELSE 0,
     maxOutputFormatted |->
         syncFormatContextLength(IF HasMaxOutput(model)
                                 THEN Num(model.top_provider.max_completion_tokens)
                                 ELSE Undefined),
     inputPrice  |-> syncFormatPrice(PricingOf(model, "prompt")),
     outputPrice |-> syncFormatPrice(PricingOf(model, "completion")),
     modality    |-> ArchitectureOf(model, "modality", "text->text"),
     inputModalities  |-> ArchitectureOf(model, "input_modalities", <<"text">>),
     outputModalities |-> ArchitectureOf(model, "output_modalities", <<"text">>),
     openRouterUrl |-> UrlPrefix \o model.id,
     createdAt   |-> IF Has(model, "created") /\ model.created # 0
                     THEN IsoDate(model.created * 1000) ELSE Null]

\* processModels(rawModels) of the script
syncProcessModels(rawModels) ==
    [k \in 1 .. Len(rawModels) |-> syncNormalized(rawModels[k])]

\* const data = {updatedAt, totalCount, models} of saveData, built at time t
saveData(models, t) ==
    [updatedAt |-> t, totalCount |-> Len(models), models |-> models]

----------------------------------------------------------------------------
(* The upstream: what one `await fetch(OPENROUTER_API)` followed by        *)
(* `await response.json()` can produce.                                    *)

RawA ==
    [id |-> <<"o", "p", "e", "n", "a", "i", "/", "g", "p", "t", "-", "4", "o">>,
     name |-> <<"G", "P", "T", "-", "4", "o">>,
     description |-> "flagship",
     context_length |-> 128000,
     top_provider |-> [max_completion_tokens |-> 16384],
     pricing |-> [prompt |-> Dec(25, 7), completion |-> Dec(1, 5)],
     architecture |-> [modality |-> "text+image->text",
                       input_modalities |-> <<"text", "image">>,
                       output_modalities |-> <<"text">>],
     created |-> 1715558]
RawB ==
    [id |-> <<"s", "t", "a", "n", "d", "a", "l", "o", "n", "e", "-", "i", "d">>,
     pricing |-> [prompt |-> Dec(0, 0)]]
RawNoId ==
    [name |-> <<"n", "o", " ", "i", "d">>,
     pricing |-> [prompt |-> TextPrice, completion |-> Dec(15, 10)]]

Bodies ==
    { [data |-> <<RawA, RawB>>],
      [data |-> <<RawNoId>>],
      [nodata |-> TRUE] }

Outcomes ==
    { [kind |-> "network"] }
      \cup { [kind |-> "status", ok |-> FALSE] }
      \cup { [kind |-> "badjson", ok |-> TRUE] }
      \cup { [kind |-> "body", ok |-> TRUE, body |-> b] : b \in Bodies }

\* const models = processModels(data.data), for each data array of Bodies
\* that processModels transforms without throwing (worked out once, the
\* steps of the handler look the result up)
Processed ==
    [d \in { b.data : b \in { x \in Bodies : "data" \in DOMAIN x
                                              /\ Transformable(x.data) } }
       |-> processModels(d)]

\* How the try block of the handler ends for an upstream outcome: "ok" when
\* it runs to its end, otherwise the statement that threw.
TryResult(o) ==
    IF o.kind = "network" THEN "network"            \* fetch() rejected
    ELSE IF ~o.ok THEN "status"                     \* !response.ok
    ELSE IF o.kind = "badjson" THEN "json"          \* response.json() rejected
    ELSE IF ~("data" \in DOMAIN o.body) THEN "nodata"
    ELSE IF ~Transformable(o.body.data) THEN "transform"
    ELSE "ok"

----------------------------------------------------------------------------
(* State *)

VARIABLES
    cache,      \* the module-level cache object {data, timestamp, TTL}
    clock,      \* Date.now()
    ticks,      \* clock advances so far
    pc,         \* per invocation: "idle", "await" (suspended at fetch),
                \* "json" (suspended at response.json()), "done"
    now,        \* per invocation: the const `now` read at entry
    resp,       \* per invocation: the response sent (status and JSON body)
    calls,      \* per invocation: upstream requests issued by it
    reqs,       \* invocations started so far
    lastStored, \* the result object of the latest successful fetch
    replaced,   \* the cache.data that the latest successful fetch overwrote
    last,       \* the step taken last: operation, invocation, try result
    priceIn,    \* argument of a formatPrice call
    priceOut,   \* its result
    priceDone,  \* whether the call has returned
    arg,        \* argument of a call of one of the other pure functions
    ret,        \* its result
    done,       \* whether the call has returned
    env,          \* process.env of the /api/config instance
    runtimeCache, \* `let runtimeCache` of the config handler that caches
    configStore,  \* `let configStore` of the config handler that stores
    envReads,     \* reads of process.env.DEFAULT_MODELS so far
    cposted,      \* per config handler: the array of its latest POST answered 200
    clast,        \* the /api/config request handled last, and its response
    net,             \* App: what the network does to the three requests
    apc,             \* App: where fetchData stands
    allModelsData,   \* App state
    loading,         \* App state
    error,           \* App state: null or a message
    serverDefaultIds, \* App state
    displayModelIds, \* App state
    sortField,       \* App state
    sortDirection,   \* App state
    shownAtLoad,     \* App: displayModelIds as the initial load set it
    alast,           \* App: the step taken last
    adminPage,       \* AdminPage: its state, sessionStorage and loadData
    adminLast,       \* AdminPage: the step taken last
    disk,            \* static server: the paths of the regular files
    staticReq        \* static server: the request, where its handling
                     \* stands, and its response

hvars ==
    <<cache, clock, ticks, pc, now, resp, calls, reqs, lastStored, replaced, last>>
pvars == <<priceIn, priceOut, priceDone>>
uvars == <<arg, ret, done>>
cvars == <<env, runtimeCache, configStore, envReads, cposted, clast>>
avars ==
    <<net, apc, allModelsData, loading, error, serverDefaultIds,
      displayModelIds, sortField, sortDirection, shownAtLoad, alast>>
mvars == <<adminPage, adminLast>>
svars == <<disk, staticReq>>
xvars == <<uvars, cvars, avars, mvars, svars>>
vars == <<hvars, pvars, xvars>>

NoResp == [status |-> 0]

HandlerInit ==
    /\ cache = [data |-> Null, timestamp |-> 0, TTL |-> TTL]
    /\ clock = 1
    /\ ticks = 0
    /\ pc = [i \in Inv |-> "idle"]
    /\ now = [i \in Inv |-> 0]
    /\ resp = [i \in Inv |-> NoResp]
    /\ calls = [i \in Inv |-> 0]
    /\ reqs = 0
    /\ lastStored = Null
    /\ replaced = Null
    /\ last = [op |-> "init", inv |-> 0, try |-> "none"]

\* No call of formatPrice is under way
PriceIdle ==
    /\ priceIn = NoPrice
    /\ priceOut = 0
    /\ priceDone = FALSE

\* No call of another pure function is under way
UtilIdle ==
    /\ arg = Null
    /\ ret = Null
    /\ done = FALSE

\* No /api/config instance is running
ConfigIdle ==
    /\ env = Null
    /\ runtimeCache = Null
    /\ configStore = Null
    /\ envReads = 0
    /\ cposted = Null
    /\ clast = Null

\* No App is mounted
AppIdle ==
    /\ net = Null
    /\ apc = "none"
    /\ allModelsData = Null
    /\ loading = FALSE
    /\ error = Null
    /\ serverDefaultIds = Null
    /\ displayModelIds = {}
    /\ sortField = "none"
    /\ sortDirection = "none"
    /\ shownAtLoad = Null
    /\ alast = Null

\* No AdminPage is mounted
AdminIdle ==
    /\ adminPage = Null
    /\ adminLast = Null

\* No static file server is running
StaticIdle ==
    /\ disk = {}
    /\ staticReq = Null

Init ==
    /\ HandlerInit
    /\ PriceIdle
    /\ UtilIdle
    /\ ConfigIdle
    /\ AppIdle
    /\ AdminIdle
    /\ StaticIdle

----------------------------------------------------------------------------
(* Responses *)

\* res.status(200).json({...cache.data, fromCache: true})
HitResponse(data) ==
    [status |-> 200, updatedAt |-> data.updatedAt,
     totalCount |-> data.totalCount, models |-> data.models,
     fromCache |-> TRUE]

\* res.status(200).json(result)
FreshResponse(result) ==
    [status |-> 200, updatedAt |-> result.updatedAt,
     totalCount |-> result.totalCount, models |-> result.models]

\* Variant of FallbackResponse: the fallback answered like a plain cache hit
FallbackResponseAsHit(data) ==
    [status |-> 200, updatedAt |-> data.updatedAt,
     totalCount |-> data.totalCount, models |-> data.models,
     fromCache |-> TRUE]

\* res.status(200).json({...cache.data, fromCache: true, cacheReason: ...})
FallbackResponse(data) ==
    [status |-> 200, updatedAt |-> data.updatedAt,
     totalCount |-> data.totalCount, models |-> data.models,
     fromCache |-> TRUE, cacheReason |-> "API error fallback"]

\* Variant of ErrorResponse: the error body sent without res.status(500)
ErrorResponseStatus200 ==
    [status |-> 200, error |-> "Failed to fetch models"]

\* res.status(500).json({error: 'Failed to fetch models', message})
ErrorResponse ==
    [status |-> 500, error |-> "Failed to fetch models"]

----------------------------------------------------------------------------
(* Actions *)

\* An invocation that has returned leaves nothing behind: the next step
\* clears what the model kept of it (its locals and the response it sent).
Retire(f, cleared) ==
    [j \in Inv |-> IF pc[j] = "done" THEN cleared ELSE f[j]]

\* Whether invocation i is suspended at one of the two awaits of the try
\* block
Suspended(i) == pc[i] \in {"await", "json"}

\* The await at which the invocation is suspended when the upstream outcome
\* o ends its try block: `await fetch(...)` when fetch rejects or the
\* response is not ok (the throw follows in the same turn), and else
\* `await response.json()`
ResumedAt(o) ==
    IF TryResult(o) \in {"network", "status"} THEN "await" ELSE "json"

\* Variant of CacheValid: `<=` in place of `<`
CacheValidInclusive(t) ==
    cache.data # Null /\ (t - cache.timestamp) <= cache.TTL

\* The cache check of the handler
CacheValid(t) == cache.data # Null /\ (t - cache.timestamp) < cache.TTL

\* Variant of Enter: a refresh already in flight is shared instead of
\* issuing a second upstream request
EnterSingleFlight(i) ==
    /\ ~Suspended(i)
    /\ \A j \in 1 .. (i - 1) : Suspended(j)
    /\ reqs < MaxReqs
    /\ reqs' = reqs + 1
    /\ now' = [Retire(now, 0) EXCEPT ![i] = clock]
    /\ last' = [op |-> "enter", inv |-> i, try |-> "none",
                afterFail |-> last.op = "fail"]
    /\ IF cache.data # Null /\ (clock - cache.timestamp) < cache.TTL
       THEN /\ resp' = [Retire(resp, NoResp) EXCEPT ![i] = HitResponse(cache.data)]
            /\ calls' = [Retire(calls, 0) EXCEPT ![i] = 0]
            /\ pc' = [Retire(pc, "idle") EXCEPT ![i] = "done"]
       ELSE /\ resp' = [Retire(resp, NoResp) EXCEPT ![i] = NoResp]
            /\ calls' = [Retire(calls, 0) EXCEPT ![i] =
                            IF \E j \in Inv : Suspended(j) THEN 0 ELSE 1]
            /\ pc' = [Retire(pc, "idle") EXCEPT ![i] = "await"]
    /\ UNCHANGED <<cache, clock, ticks, lastStored, replaced, pvars, xvars>>

\* A request arrives: the handler runs from its entry to the cache-hit
\* return, or to the `await fetch(...)` where it is suspended. The new
\* invocation is given the first index not held by a suspended one.
Enter(i) ==
    /\ ~Suspended(i)
    /\ \A j \in 1 .. (i - 1) : Suspended(j)
    /\ reqs < MaxReqs
    /\ reqs' = reqs + 1
    /\ now' = [Retire(now, 0) EXCEPT ![i] = clock]
    /\ last' = [op |-> "enter", inv |-> i, try |-> "none",
                afterFail |-> last.op = "fail"]
    /\ IF CacheValid(clock)
       THEN /\ resp' = [Retire(resp, NoResp) EXCEPT ![i] = HitResponse(cache.data)]
            /\ calls' = [Retire(calls, 0) EXCEPT ![i] = 0]
            /\ pc' = [Retire(pc, "idle") EXCEPT ![i] = "done"]
       ELSE /\ resp' = [Retire(resp, NoResp) EXCEPT ![i] = NoResp]
            /\ calls' = [Retire(calls, 0) EXCEPT ![i] = 1]
            /\ pc' = [Retire(pc, "idle") EXCEPT ![i] = "await"]
    /\ UNCHANGED <<cache, clock, ticks, lastStored, replaced, pvars, xvars>>

\* fetch() resolved with a response that is ok: the handler calls
\* response.json() and is suspended again. Other invocations and the clock
\* run before the body has been read and parsed.
FetchResponse(i) ==
    /\ pc[i] = "await"
    /\ pc' = [Retire(pc, "idle") EXCEPT ![i] = "json"]
    /\ last' = [op |-> "response", inv |-> i, try |-> "none"]
    /\ now' = Retire(now, 0)
    /\ resp' = Retire(resp, NoResp)
    /\ calls' = Retire(calls, 0)
    /\ UNCHANGED <<cache, clock, ticks, reqs, lastStored, replaced, pvars, xvars>>

\* Variant of FetchOk: updatedAt taken from the `now` read at entry instead
\* of a fresh new Date()
FetchOkDateAtEntry(i, o) ==
    /\ pc[i] = ResumedAt(o)
    /\ TryResult(o) = "ok"
    /\ LET models == Processed[o.body.data]
           result == [updatedAt |-> now[i],
                      totalCount |-> Len(models),
                      models |-> models]
       IN /\ cache' = [data |-> result, timestamp |-> now[i], TTL |-> cache.TTL]
          /\ lastStored' = result
          /\ replaced' = cache.data
          /\ resp' = [Retire(resp, NoResp) EXCEPT ![i] = FreshResponse(result)]
    /\ pc' = [Retire(pc, "idle") EXCEPT ![i] = "done"]
    /\ last' = [op |-> "ok", inv |-> i, try |-> "ok"]
    /\ now' = Retire(now, 0)
    /\ calls' = Retire(calls, 0)
    /\ UNCHANGED <<clock, ticks, reqs, pvars, xvars>>

\* response.json() gave a usable body: the rest of the try block.
FetchOk(i, o) ==
    /\ pc[i] = ResumedAt(o)
    /\ TryResult(o) = "ok"
    /\ LET models == Processed[o.body.data]
           result == [updatedAt |-> clock,
                      totalCount |-> Len(models),
                      models |-> models]
       IN /\ cache' = [data |-> result, timestamp |-> now[i], TTL |-> cache.TTL]
          /\ lastStored' = result
          /\ replaced' = cache.data
          /\ resp' = [Retire(resp, NoResp) EXCEPT ![i] = FreshResponse(result)]
    /\ pc' = [Retire(pc, "idle") EXCEPT ![i] = "done"]
    /\ last' = [op |-> "ok", inv |-> i, try |-> "ok"]
    /\ now' = Retire(now, 0)
    /\ calls' = Retire(calls, 0)
    /\ UNCHANGED <<clock, ticks, reqs, pvars, xvars>>

\* Variant of FetchFail: the catch block stamps the cache entry with the
\* time of the failed attempt
FetchFailRestamp(i, o) ==
    /\ pc[i] = ResumedAt(o)
    /\ TryResult(o) # "ok"
    /\ resp' = [Retire(resp, NoResp) EXCEPT ![i] =
                   IF cache.data # Null
                   THEN FallbackResponse(cache.data)
                   ELSE ErrorResponse]
    /\ cache' = [cache EXCEPT !.timestamp = now[i]]
    /\ pc' = [Retire(pc, "idle") EXCEPT ![i] = "done"]
    /\ last' = [op |-> "fail", inv |-> i, try |-> TryResult(o)]
    /\ now' = Retire(now, 0)
    /\ calls' = Retire(calls, 0)
    /\ UNCHANGED <<clock, ticks, reqs, lastStored, replaced, pvars, xvars>>

\* Variant of FetchFail: processModels is called outside the try block, so
\* its exception leaves the handler and no response is sent
FetchFailEscapes(i, o) ==
    /\ pc[i] = ResumedAt(o)
    /\ TryResult(o) # "ok"
    /\ resp' = [Retire(resp, NoResp) EXCEPT ![i] =
                   IF TryResult(o) = "transform" THEN NoResp
                   ELSE IF cache.data # Null
                   THEN FallbackResponse(cache.data)
                   ELSE ErrorResponse]
    /\ pc' = [Retire(pc, "idle") EXCEPT ![i] = "done"]
    /\ last' = [op |-> "fail", inv |-> i, try |-> TryResult(o)]
    /\ now' = Retire(now, 0)
    /\ calls' = Retire(calls, 0)
    /\ UNCHANGED <<cache, clock, ticks, reqs, lastStored, replaced, pvars, xvars>>

\* Variant of FetchFail: the catch block also resets the cache
FetchFailEvict(i, o) ==
    /\ pc[i] = ResumedAt(o)
    /\ TryResult(o) # "ok"
    /\ resp' = [Retire(resp, NoResp) EXCEPT ![i] =
                   IF cache.data # Null
                   THEN FallbackResponse(cache.data)
                   ELSE ErrorResponse]
    /\ cache' = [data |-> Null, timestamp |-> 0, TTL |-> cache.TTL]
    /\ pc' = [Retire(pc, "idle") EXCEPT ![i] = "done"]
    /\ last' = [op |-> "fail", inv |-> i, try |-> TryResult(o)]
    /\ now' = Retire(now, 0)
    /\ calls' = Retire(calls, 0)
    /\ UNCHANGED <<clock, ticks, reqs, lastStored, replaced, pvars, xvars>>

\* Variant of FetchFail: the catch block repeats the request once before
\* giving up
FetchFailRetry(i, o) ==
    /\ pc[i] = ResumedAt(o)
    /\ TryResult(o) # "ok"
    /\ IF calls[i] < 2
       THEN /\ calls' = [Retire(calls, 0) EXCEPT ![i] = calls[i] + 1]
            /\ resp' = Retire(resp, NoResp)
            /\ pc' = [Retire(pc, "idle") EXCEPT ![i] = "await"]
       ELSE /\ resp' = [Retire(resp, NoResp) EXCEPT ![i] =
                           IF cache.data # Null
                           THEN FallbackResponse(cache.data)
                           ELSE ErrorResponse]
            /\ pc' = [Retire(pc, "idle") EXCEPT ![i] = "done"]
            /\ calls' = Retire(calls, 0)
    /\ last' = [op |-> "fail", inv |-> i, try |-> TryResult(o)]
    /\ now' = Retire(now, 0)
    /\ UNCHANGED <<cache, clock, ticks, reqs, lastStored, replaced, pvars, xvars>>

\* Something in the try block threw: the catch block. fetch() rejecting
\* and a response that is not ok end the first await; a body that is no
\* JSON, has no data array, or makes processModels throw ends the second.
FetchFail(i, o) ==
    /\ pc[i] = ResumedAt(o)
    /\ TryResult(o) # "ok"
    /\ resp' = [Retire(resp, NoResp) EXCEPT ![i] =
                   IF cache.data # Null
                   THEN FallbackResponse(cache.data)
                   ELSE ErrorResponse]
    /\ pc' = [Retire(pc, "idle") EXCEPT ![i] = "done"]
    /\ last' = [op |-> "fail", inv |-> i, try |-> TryResult(o)]
    /\ now' = Retire(now, 0)
    /\ calls' = Retire(calls, 0)
    /\ UNCHANGED <<cache, clock, ticks, reqs, lastStored, replaced, pvars, xvars>>

\* Time passes: by a millisecond, or by one millisecond less than the TTL.
Tick ==
    /\ ticks < MaxTicks
    /\ ticks' = ticks + 1
    /\ \E d \in {1, TTL - 1} : clock' = clock + d
    /\ last' = [op |-> "tick", inv |-> 0, try |-> "none"]
    /\ pc' = Retire(pc, "idle")
    /\ now' = Retire(now, 0)
    /\ resp' = Retire(resp, NoResp)
    /\ calls' = Retire(calls, 0)
    /\ UNCHANGED <<cache, reqs, lastStored, replaced, pvars, xvars>>

Next ==
    \/ \E i \in Inv : Enter(i)
    \/ \E i \in Inv : FetchResponse(i)
    \/ \E i \in Inv, o \in Outcomes : FetchOk(i, o)
    \/ \E i \in Inv, o \in Outcomes : FetchFail(i, o)
    \/ Tick

Spec == Init /\ [][Next]_vars

----------------------------------------------------------------------------
(* Properties of the /api/models handler                                   *)
(*                                                                         *)
(* `last` names the step that led to the current state, so a state         *)
(* predicate guarded by last.op speaks about the state right after that    *)
(* step of invocation last.inv.                                            *)

HandlerStep == last.op \in {"enter", "ok", "fail"}

\* The JSON body of a 200 response that carries the payload d
Payload200(d) ==
    [status |-> 200, updatedAt |-> d.updatedAt,
     totalCount |-> d.totalCount, models |-> d.models]

InFlight == { j \in Inv : Suspended(j) }

\* C1: an invocation that finds cache.data set and now - cache.timestamp < TTL
\* answers 200 with exactly the payload of the latest successful fetch plus
\* fromCache: true and issues no upstream request; with an empty cache or
\* now - cache.timestamp >= TTL (equality included) it goes to the upstream.
C1_HitOrFetch ==
    last.op = "enter" =>
        LET i == last.inv IN
        IF cache.data # Null /\ now[i] - cache.timestamp < TTL
        THEN /\ pc[i] = "done"
             /\ calls[i] = 0
             /\ resp[i] =
                  [status |-> 200, updatedAt |-> lastStored.updatedAt,
                   totalCount |-> lastStored.totalCount,
                   models |-> lastStored.models, fromCache |-> TRUE]
        ELSE /\ pc[i] = "await"
             /\ calls[i] = 1
             /\ resp[i] = NoResp

\* C1 witness: a cache hit one millisecond before the entry expires
C1_Witness ==
    /\ last.op = "enter"
    /\ pc[last.inv] = "done"
    /\ resp[last.inv].status = 200
    /\ now[last.inv] - cache.timestamp = TTL - 1

\* C2 (as stated): whenever the upstream answers 2xx with a body that has a
\* data array, the handler stores the transformed result with the
\* invocation's `now` and answers 200 with that result, untagged.
C2_Original ==
    (last.op \in {"ok", "fail"} /\ last.try \in {"ok", "transform"}) =>
        LET i == last.inv IN
        /\ cache.timestamp = now[i]
        /\ resp[i] = Payload200(cache.data)

\* C3: when the fetch fails (network error, non-2xx status, body without a
\* data array) and the cache holds a payload, even an expired one, the
\* handler answers 200 with that payload unchanged, fromCache: true and
\* cacheReason 'API error fallback'.
C3_StaleFallback ==
    (last.op \in {"ok", "fail"} /\ last.try \in {"network", "status", "nodata"}
       /\ cache.data # Null) =>
        LET i == last.inv IN
        /\ pc[i] = "done"
        /\ cache.data = lastStored
        /\ resp[i] =
             [status |-> 200, updatedAt |-> lastStored.updatedAt,
              totalCount |-> lastStored.totalCount,
              models |-> lastStored.models, fromCache |-> TRUE,
              cacheReason |-> "API error fallback"]

\* C3 witness: a fallback served from an expired entry
C3_Witness ==
    /\ last.op = "fail"
    /\ last.try = "status"
    /\ cache.data # Null
    /\ now[last.inv] - cache.timestamp >= TTL
    /\ resp[last.inv].status = 200

\* C4: a failed fetch handled while the cache is empty is answered 500 with
\* an error body and no models payload, and leaves the cache empty; no other
\* step of the handler produces a 500.
C4_ErrorOnlyWhenEmpty ==
    HandlerStep =>
        LET i == last.inv IN
        /\ (last.op = "fail" /\ cache.data = Null) =>
              /\ resp[i] = [status |-> 500, error |-> "Failed to fetch models"]
              /\ ~("models" \in DOMAIN resp[i])
              /\ cache.timestamp = 0
              /\ lastStored = Null
        /\ resp[i].status = 500 => (last.op = "fail" /\ cache.data = Null)

\* C4 witness: a 500 after a malformed body on a cold cache
C4_Witness ==
    /\ last.op = "fail"
    /\ last.try = "nodata"
    /\ resp[last.inv].status = 500
    /\ cache.data = Null

\* C5 as stated: the cache entry is written only by a successful fetch, data
\* and timestamp together, and every replacement carries a timestamp
\* strictly greater than that of the entry it replaces.
C5_OnlyNewerReplaces ==
    [][cache' # cache =>
         /\ last'.op = "ok"
         /\ cache'.data = lastStored'
         /\ cache'.timestamp = now[last'.inv]
         /\ cache'.timestamp > cache.timestamp]_vars

\* C6: a successful refresh that completes when at least TTL has passed
\* since the previous successful fetch produced its payload returns an
\* updatedAt strictly greater than that of the payload it replaces.
C6_UpdatedAtGrows ==
    (last.op = "ok" /\ replaced # Null /\ clock - replaced.updatedAt >= TTL) =>
        /\ resp[last.inv].updatedAt > replaced.updatedAt
        /\ cache.data.updatedAt > replaced.updatedAt

\* C6 witness: a refresh begun once the TTL had elapsed has succeeded
C6_Witness ==
    /\ last.op = "ok"
    /\ replaced # Null
    /\ now[last.inv] - replaced.updatedAt >= TTL
    /\ now[last.inv] - cache.timestamp = 0

\* C7: once a successful fetch has been stored, cache.data is never empty
\* again and no step of the handler answers 500.
C7_NeverEmptyAgain ==
    lastStored # Null =>
        /\ cache.data # Null
        /\ HandlerStep => resp[last.inv].status # 500

\* C7 witness: an upstream failure on an expired entry, after a success
C7_Witness ==
    /\ lastStored # Null
    /\ last.op = "fail"
    /\ clock - cache.timestamp >= TTL
    /\ cache.data # Null

\* C8: an invocation issues no upstream request on a cache hit and exactly
\* one otherwise; a failed request is not repeated.
C8_AtMostOneRequest ==
    \A i \in Inv :
        /\ calls[i] <= 1
        /\ Suspended(i) => calls[i] = 1
        /\ pc[i] = "done" =>
              calls[i] = (IF "fromCache" \in DOMAIN resp[i]
                             /\ ~("cacheReason" \in DOMAIN resp[i])
                          THEN 0 ELSE 1)
        /\ (last.op = "fail" /\ last.inv = i) => (pc[i] = "done" /\ calls[i] = 1)

\* C8 witness: a failed request has been answered without a second attempt
C8_Witness ==
    /\ last.op = "fail"
    /\ last.try = "network"
    /\ calls[last.inv] = 1
    /\ pc[last.inv] = "done"

\* C9: an invocation that starts on an empty or expired cache while another
\* invocation's upstream request is still in flight issues a request of its
\* own; every invocation in flight has its own upstream request.
C9_NoSingleFlight ==
    /\ \A j \in InFlight : calls[j] = 1
    /\ (last.op = "enter"
          /\ ~(cache.data # Null /\ now[last.inv] - cache.timestamp < TTL)
          /\ InFlight \ {last.inv} # {}) =>
            (last.inv \in InFlight /\ calls[last.inv] = 1)

\* C9 witness: two upstream requests in flight at once, on an expired cache
C9_Witness ==
    /\ Cardinality(InFlight) >= 2
    /\ \A j \in InFlight : calls[j] = 1
    /\ cache.data # Null

\* C22: a failed upstream fetch leaves cache.data and cache.timestamp as
\* they were (a failure is never stored), and the invocation that follows a
\* failed one and finds the entry still expired goes to the upstream again
\* instead of answering from the cache without a request.
C22_FailureNotCached ==
    /\ [][last'.op = "fail" =>
             /\ cache' = cache
             /\ cache'.data = lastStored']_vars
    /\ [](last.op = "enter" /\ last.afterFail
            /\ cache.data # Null /\ now[last.inv] - cache.timestamp >= TTL =>
               /\ pc[last.inv] = "await"
               /\ calls[last.inv] = 1
               /\ resp[last.inv] = NoResp)

\* C22 witness: right after a failed fetch on an expired entry, the next
\* invocation is waiting for an upstream request of its own
C22_Witness ==
    /\ last.op = "enter"
    /\ last.afterFail
    /\ lastStored # Null
    /\ cache.data = lastStored
    /\ now[last.inv] - cache.timestamp >= TTL
    /\ pc[last.inv] = "await"
    /\ calls[last.inv] = 1

\* C23: every invocation ends with one response, 200 with a payload or 500
\* with an error body, and sends none before it ends; a network failure, a
\* non-2xx status, a body that is no JSON or has no data array, and an
\* exception of processModels (a record without an id) all end the
\* invocation with such a response.
C23_AlwaysOneResponse ==
    /\ \A i \in Inv :
          IF pc[i] = "done"
          THEN \/ /\ resp[i].status = 200
                  /\ DOMAIN resp[i] \in
                        { {"status", "updatedAt", "totalCount", "models"},
                          {"status", "updatedAt", "totalCount", "models",
                           "fromCache"},
                          {"status", "updatedAt", "totalCount", "models",
                           "fromCache", "cacheReason"} }
               \/ /\ resp[i].status = 500
                  /\ DOMAIN resp[i] = {"status", "error"}
          ELSE resp[i] = NoResp
    /\ last.op \in {"ok", "fail"} => pc[last.inv] = "done"
    /\ last.op = "fail" =>
          last.try \in {"network", "status", "json", "nodata", "transform"}

\* C23 witness: a record without an id made processModels throw on a cold
\* cache, and the invocation answered 500
C23_Witness ==
    /\ last.op = "fail"
    /\ last.try = "transform"
    /\ pc[last.inv] = "done"
    /\ resp[last.inv].status = 500

\* C23 second witness: the same exception with an entry in the cache is
\* answered 200 with the stored payload
C23_WitnessFallback ==
    /\ last.op = "fail"
    /\ last.try = "transform"
    /\ pc[last.inv] = "done"
    /\ resp[last.inv].status = 200
    /\ "cacheReason" \in DOMAIN resp[last.inv]

----------------------------------------------------------------------------
(* formatPrice on its own: one call on one argument *)

PriceInputs ==
    { Dec(m, p) : m \in (0 - MaxMant) .. MaxMant, p \in MinPlaces .. MaxPlaces }
      \cup { Dec(0, 0), NoPrice, TextPrice }

PriceInit ==
    /\ HandlerInit
    /\ priceIn \in PriceInputs
    /\ priceOut = 0
    /\ priceDone = FALSE
    /\ UtilIdle
    /\ ConfigIdle
    /\ AppIdle
    /\ AdminIdle
    /\ StaticIdle

CallFormatPrice ==
    /\ ~priceDone
    /\ priceOut' = formatPrice(priceIn)
    /\ priceDone' = TRUE
    /\ UNCHANGED <<hvars, priceIn, xvars>>

PriceNext == CallFormatPrice

PriceSpec == PriceInit /\ [][PriceNext]_vars

\* k / 1000 is a multiple of 0.001 nearest to mant * 10^-places * 1000000
NearestMilli(mant, places, k) ==
    IF places <= 9
    THEN k = mant * Pow10(9 - places)
    ELSE LET q == Pow10(places - 9)
             d == k * q - mant
         IN  2 * (IF d < 0 THEN 0 - d ELSE d) <= q

\* C10: formatPrice returns the parsed per-token price times 1,000,000
\* rounded to 3 decimals: 0.0000025 gives 2.5, 0 gives 0, a missing or
\* non-numeric price gives 0.
C10_PricePerMillion ==
    priceDone =>
        /\ priceIn.kind = "decimal" =>
              NearestMilli(priceIn.mant, priceIn.places, priceOut)
        /\ priceIn.kind # "decimal" => priceOut = 0
        /\ priceIn = Dec(25, 7) => priceOut = 2500
        /\ priceIn = Dec(0, 0) => priceOut = 0

\* C10 witness: formatPrice("0.0000025") has returned 2.5
C10_Witness ==
    /\ priceDone
    /\ priceIn = Dec(25, 7)
    /\ priceOut = 2500

----------------------------------------------------------------------------
(* formatContextLength on its own: one call on one argument *)

LenSpread == 12
    \* how far around each of LenBases the argument ranges
LenBases ==
    {LenSpread, 1000, 128000, 999500, 1000000, 1005000, 1125000, 2005000,
     2015000, 9995000}

LenInputs ==
    { Num(b + d) : b \in LenBases, d \in (0 - LenSpread) .. LenSpread }
      \cup { Undefined }

LenInit ==
    /\ HandlerInit
    /\ PriceIdle
    /\ arg \in LenInputs
    /\ ret = Null
    /\ done = FALSE
    /\ ConfigIdle
    /\ AppIdle
    /\ AdminIdle
    /\ StaticIdle

CallFormatContextLength ==
    /\ ~done
    /\ arg \in LenInputs
    /\ ret' = formatContextLength(arg)
    /\ done' = TRUE
    /\ UNCHANGED <<hvars, pvars, arg, cvars, avars, mvars, svars>>

LenNext == CallFormatContextLength

LenSpec == LenInit /\ [][LenNext]_vars

\* The distance between a and b
Dist(a, b) == IF a < b THEN b - a ELSE a - b

\* C11 as stated: formatContextLength(n) is n / 1,000,000 with two decimals
\* followed by 'M' for n >= 1,000,000; n / 1,000 rounded to an integer
\* followed by 'K', a value below 1000, for 1,000 <= n < 1,000,000; the
\* number itself for 0 < n < 1,000; and null for 0 or a missing value.
C11_Original ==
    done =>
        IF arg.kind = "undefined" \/ arg.val = 0 THEN ret = NullStr
        ELSE IF arg.val >= 1000000
        THEN \E h \in 100 .. ((arg.val + 5000) \div 10000) :
                /\ Dist(h * 10000, arg.val) <= 5000
                /\ ret = ToStr(h \div 100)
                           \o <<".", Digit[((h \div 10) % 10) + 1],
                                Digit[(h % 10) + 1], "M">>
        ELSE IF arg.val >= 1000
        THEN \E k \in 1 .. 999 :
                /\ Dist(k * 1000, arg.val) <= 500
                /\ ret = Append(ToStr(k), "K")
        ELSE ret = ToStr(arg.val)

----------------------------------------------------------------------------
(* extractProvider on its own: one call on one model id *)

MaxIdLen == 4
    \* longest model id given to extractProvider
IdChars == {"a", "b", "/"}

IdInputs == UNION { [1 .. n -> IdChars] : n \in 0 .. MaxIdLen }

ProviderInit ==
    /\ HandlerInit
    /\ PriceIdle
    /\ arg \in IdInputs
    /\ ret = Null
    /\ done = FALSE
    /\ ConfigIdle
    /\ AppIdle
    /\ AdminIdle
    /\ StaticIdle

CallExtractProvider ==
    /\ ~done
    /\ arg \in IdInputs
    /\ ret' = extractProvider(arg)
    /\ done' = TRUE
    /\ UNCHANGED <<hvars, pvars, arg, cvars, avars, mvars, svars>>

ProviderNext == CallExtractProvider

ProviderSpec == ProviderInit /\ [][ProviderNext]_vars

\* C12: extractProvider(id) is the part of id before its first '/' when id
\* contains a '/', and 'unknown' when it contains none.
C12_BeforeFirstSlash ==
    done =>
        IF \E i \in 1 .. Len(arg) : arg[i] = "/"
        THEN \E i \in 1 .. Len(arg) :
                /\ arg[i] = "/"
                /\ \A j \in 1 .. (i - 1) : arg[j] # "/"
                /\ ret = [j \in 1 .. (i - 1) |-> arg[j]]
        ELSE ret = <<"u", "n", "k", "n", "o", "w", "n">>

\* C12 witness: an id with one '/' has given its prefix
C12_Witness ==
    /\ done
    /\ arg = <<"a", "b", "/", "a">>
    /\ ret = <<"a", "b">>

----------------------------------------------------------------------------
(* The two processModels side by side: the handler's and the script's are  *)
(* run on the same list of raw records.                                    *)

MaxRaw == 2
    \* longest list of raw records given to the two processModels

\* An object without properties
None == [f \in {} |-> f]

\* Raw records: every combination of a few values, or none, for each
\* property that processModels reads
RawRecords ==
    { i @@ n @@ d @@ c @@ t @@ p @@ a @@ e :
        i \in { None, [id |-> <<"a", "/", "b">>], [id |-> <<"b">>] },
        n \in { None, [name |-> <<>>], [name |-> <<"A">>] },
        d \in { None, [description |-> "d"] },
        c \in { None, [context_length |-> 0], [context_length |-> 999500],
                [context_length |-> 1005000], [context_length |-> 2005000] },
        t \in { None, [top_provider |-> None],
                [top_provider |-> [max_completion_tokens |-> 4096]] },
        p \in { None, [pricing |-> [prompt |-> Dec(25, 7)]],
                [pricing |-> [prompt |-> TextPrice, completion |-> Dec(105, 10)]] },
        a \in { None,
                [architecture |-> [modality |-> "", output_modalities |-> <<>>]],
                [architecture |-> [modality |-> "text+image->text",
                                   input_modalities |-> <<"text", "image">>]] },
        e \in { None, [created |-> 0], [created |-> 1715558] } }

RawSamples == {RawA, RawB, RawNoId}

RawLists ==
    { <<r>> : r \in RawRecords }
      \cup UNION { [1 .. n -> RawSamples] : n \in 0 .. MaxRaw }

\* What a run that ended in an exception leaves
Thrown == [thrown |-> "TypeError"]

SyncInit ==
    /\ HandlerInit
    /\ PriceIdle
    /\ arg \in RawLists
    /\ ret = [api |-> Null, sync |-> Null]
    /\ done = FALSE
    /\ ConfigIdle
    /\ AppIdle
    /\ AdminIdle
    /\ StaticIdle

\* The handler's processModels and the result object built from it
ApiProcess ==
    /\ arg \in RawLists
    /\ ret.api = Null
    /\ ret' = [ret EXCEPT !.api =
                  IF Transformable(arg)
                  THEN Result(processModels(arg), clock) ELSE Thrown]
    /\ done' = (ret.sync # Null)
    /\ UNCHANGED <<hvars, pvars, arg, cvars, avars, mvars, svars>>

\* The script's processModels and the object saveData writes
SyncProcess ==
    /\ arg \in RawLists
    /\ ret.sync = Null
    /\ ret' = [ret EXCEPT !.sync =
                  IF syncTransformable(arg)
                  THEN saveData(syncProcessModels(arg), clock) ELSE Thrown]
    /\ done' = (ret.api # Null)
    /\ UNCHANGED <<hvars, pvars, arg, cvars, avars, mvars, svars>>

SyncNext == ApiProcess \/ SyncProcess

SyncSpec == SyncInit /\ [][SyncNext]_vars

\* C13: on every list of raw records the script's processModels gives the
\* same normalized records, in the same order, as the handler's, and both
\* wrap them as {updatedAt, totalCount = number of records, models}.
C13_SameRecords ==
    done =>
        IF ret.api = Thrown \/ ret.sync = Thrown
        THEN ret.api = ret.sync
        ELSE /\ ret.sync.models = ret.api.models
             /\ Len(ret.api.models) = Len(arg)
             /\ \A k \in 1 .. Len(arg) : ret.sync.models[k].id = arg[k].id
             /\ \A w \in {ret.api, ret.sync} :
                   /\ DOMAIN w = {"updatedAt", "totalCount", "models"}
                   /\ w.totalCount = Len(arg)

\* C13 witness: both have normalized a list of two records, one of them
\* with an id that has no provider part
C13_Witness ==
    /\ done
    /\ arg = <<RawB, RawA>>
    /\ ret.sync.totalCount = 2
    /\ ret.sync.models[1].provider = <<"u", "n", "k", "n", "o", "w", "n">>
    /\ ret.api.models[2].contextLengthFormatted = <<"1", "2", "8", "K">>

----------------------------------------------------------------------------
(* Character codes and base64, as the Authorization header uses them *)

\* The codes (ASCII, which is also their UTF-8 encoding) of the letters,
\* the digits and the punctuation that occur in the texts of this model
AsciiTable ==
    { <<" ", 32>>, <<"-", 45>>, <<".", 46>>, <<"/", 47>>, <<"0", 48>>,
      <<"1", 49>>, <<"2", 50>>, <<"3", 51>>, <<"4", 52>>, <<"5", 53>>,
      <<"6", 54>>, <<"7", 55>>, <<"8", 56>>, <<"9", 57>>, <<":", 58>>,
      <<"A", 65>>, <<"B", 66>>, <<"C", 67>>, <<"D", 68>>, <<"E", 69>>,
      <<"F", 70>>, <<"G", 71>>, <<"H", 72>>, <<"I", 73>>, <<"J", 74>>,
      <<"K", 75>>, <<"L", 76>>, <<"M", 77>>, <<"N", 78>>, <<"O", 79>>,
      <<"P", 80>>, <<"Q", 81>>, <<"R", 82>>, <<"S", 83>>, <<"T", 84>>,
      <<"U", 85>>, <<"V", 86>>, <<"W", 87>>, <<"X", 88>>, <<"Y", 89>>,
      <<"Z", 90>>, <<"a", 97>>, <<"b", 98>>, <<"c", 99>>, <<"d", 100>>,
      <<"e", 101>>, <<"f", 102>>, <<"g", 103>>, <<"h", 104>>, <<"i", 105>>,
      <<"j", 106>>, <<"k", 107>>, <<"l", 108>>, <<"m", 109>>, <<"n", 110>>,
      <<"o", 111>>, <<"p", 112>>, <<"q", 113>>, <<"r", 114>>, <<"s", 115>>,
      <<"t", 116>>, <<"u", 117>>, <<"v", 118>>, <<"w", 119>>, <<"x", 120>>,
      <<"y", 121>>, <<"z", 122>> }

Code(c) == (CHOOSE p \in AsciiTable : p[1] = c)[2]

\* The character of a byte; bytes outside the table are shown as "?"
Chr(b) ==
    IF \E p \in AsciiTable : p[2] = b
    THEN (CHOOSE p \in AsciiTable : p[2] = b)[1]
    ELSE "?"

B64Chars ==
    <<"A", "B", "C", "D", "E", "F", "G", "H", "I", "J", "K", "L", "M",
      "N", "O", "P", "Q", "R", "S", "T", "U", "V", "W", "X", "Y", "Z",
      "a", "b", "c", "d", "e", "f", "g", "h", "i", "j", "k", "l", "m",
      "n", "o", "p", "q", "r", "s", "t", "u", "v", "w", "x", "y", "z",
      "0", "1", "2", "3", "4", "5", "6", "7", "8", "9", "+", "/">>

\* btoa(s) / Buffer.from(s).toString('base64'): three bytes become four
\* characters, the last group is padded with '='
RECURSIVE Base64(_)
Base64(s) ==
    IF Len(s) = 0 THEN <<>>
    ELSE IF Len(s) = 1
    THEN LET n == Code(s[1]) * 16
         IN  <<B64Chars[(n \div 64) + 1], B64Chars[(n % 64) + 1], "=", "=">>
    ELSE IF Len(s) = 2
    THEN LET n == (Code(s[1]) * 256 + Code(s[2])) * 4
         IN  <<B64Chars[(n \div 4096) + 1], B64Chars[((n \div 64) % 64) + 1],
               B64Chars[(n % 64) + 1], "=">>
    ELSE LET n == Code(s[1]) * 65536 + Code(s[2]) * 256 + Code(s[3])
         IN  <<B64Chars[(n \div 262144) + 1], B64Chars[((n \div 4096) % 64) + 1],
               B64Chars[((n \div 64) % 64) + 1], B64Chars[(n % 64) + 1]>>
               \o Base64(SubSeq(s, 4, Len(s)))

\* The value of a base64 character
Sextet(c) == (CHOOSE k \in 1 .. 64 : B64Chars[k] = c) - 1

\* Buffer.from(t, 'base64').toString('utf-8') for a text t of base64
\* characters: decoding stops at the first '='; four characters give three
\* bytes, a last group of three gives two and one of two gives one (a
\* single left-over character gives none).
RECURSIVE Base64Decode(_)
Base64Decode(t) ==
    LET stop == Positions(t, "=")
        body == IF stop = {} THEN t ELSE SubSeq(t, 1, Least(stop) - 1)
    IN  IF Len(body) < 2 THEN <<>>
        ELSE IF Len(body) = 2
        THEN LET n == Sextet(body[1]) * 64 + Sextet(body[2])
             IN  <<Chr(n \div 16)>>
        ELSE IF Len(body) = 3
        THEN LET n == Sextet(body[1]) * 4096 + Sextet(body[2]) * 64 + Sextet(body[3])
             IN  <<Chr(n \div 1024), Chr((n \div 4) % 256)>>
        ELSE LET n == Sextet(body[1]) * 262144 + Sextet(body[2]) * 4096
                        + Sextet(body[3]) * 64 + Sextet(body[4])
             IN  <<Chr(n \div 65536), Chr((n \div 256) % 256), Chr(n % 256)>>
                   \o Base64Decode(SubSeq(body, 5, Len(body)))

----------------------------------------------------------------------------
(* /api/config: the admin configuration endpoint. Two versions of the      *)
(* handler exist: one keeps `runtimeCache`, filled from DEFAULT_MODELS of   *)
(* the environment on first use; the other keeps `configStore`, filled     *)
(* from a constant when the module is loaded. Both use the same            *)
(* verifyAuth. A handler runs without awaiting anything, so one request is *)
(* one step.                                                               *)

\* undefined where a string is expected (an environment variable that is
\* not set, a header that was not sent); no sequence of single characters
\* equals it
UndefStr == <<"undefined">>

Admin == <<"a", "d", "m", "i", "n">>
System == <<"s", "y", "s", "t", "e", "m">>
BasicPrefix == <<"B", "a", "s", "i", "c", " ">>
BearerPrefix == <<"B", "e", "a", "r", "e", "r", " ">>

\* s.startsWith(p)
StartsWith(s, p) == Len(s) >= Len(p) /\ SubSeq(s, 1, Len(p)) = p

\* s.slice(n)
Slice(s, n) == SubSeq(s, n + 1, Len(s))

\* s.trim(), the only white space being the blank
RECURSIVE Trim(_)
Trim(s) ==
    IF Len(s) = 0 THEN s
    ELSE IF s[1] = " " THEN Trim(Tail(s))
    ELSE IF s[Len(s)] = " " THEN Trim(SubSeq(s, 1, Len(s) - 1))
    ELSE s

\* list.join(c)
RECURSIVE Join(_, _)
Join(list, c) ==
    IF Len(list) = 0 THEN <<>>
    ELSE IF Len(list) = 1 THEN list[1]
    ELSE list[1] \o <<c>> \o Join(Tail(list), c)

\* list.filter(Boolean) on a list of strings: the empty ones are dropped
RECURSIVE NonEmpty(_)
NonEmpty(list) ==
    IF Len(list) = 0 THEN <<>>
    ELSE IF list[1] = <<>> THEN NonEmpty(Tail(list))
    ELSE <<list[1]>> \o NonEmpty(Tail(list))

\* Variant of ParseEnvModels: the pieces are not trimmed
ParseEnvModelsNoTrim(envModels) ==
    LET parts == Split(envModels, ",")
    IN  NonEmpty([k \in 1 .. Len(parts) |-> parts[k]])

\* envModels.split(',').map(id => id.trim()).filter(Boolean)
ParseEnvModels(envModels) ==
    LET parts == Split(envModels, ",")
    IN  NonEmpty([k \in 1 .. Len(parts) |-> Trim(parts[k])])

\* const FALLBACK_MODELS of the handler that keeps runtimeCache
FALLBACK_MODELS ==
    << \* openai/gpt-4o
       <<"o", "p", "e", "n", "a", "i", "/", "g", "p", "t", "-", "4", "o">>,
       \* openai/gpt-4o-mini
       <<"o", "p", "e", "n", "a", "i", "/", "g", "p", "t", "-", "4", "o",
       "-", "m", "i", "n", "i">>,
       \* anthropic/claude-sonnet-4
       <<"a", "n", "t", "h", "r", "o", "p", "i", "c", "/", "c", "l", "a",
       "u", "d", "e", "-", "s", "o", "n", "n", "e", "t", "-", "4">>,
       \* anthropic/claude-3.5-sonnet
       <<"a", "n", "t", "h", "r", "o", "p", "i", "c", "/", "c", "l", "a",
       "u", "d", "e", "-", "3", ".", "5", "-", "s", "o", "n", "n", "e", "t">>,
       \* google/gemini-2.5-pro-preview-06-05
       <<"g", "o", "o", "g", "l", "e", "/", "g", "e", "m", "i", "n", "i",
       "-", "2", ".", "5", "-", "p", "r", "o", "-", "p", "r", "e", "v",
       "i", "e", "w", "-", "0", "6", "-", "0", "5">>,
       \* google/gemini-2.5-flash-preview-05-20
       <<"g", "o", "o", "g", "l", "e", "/", "g", "e", "m", "i", "n", "i",
       "-", "2", ".", "5", "-", "f", "l", "a", "s", "h", "-", "p", "r",
       "e", "v", "i", "e", "w", "-", "0", "5", "-", "2", "0">>,
       \* deepseek/deepseek-chat
       <<"d", "e", "e", "p", "s", "e", "e", "k", "/", "d", "e", "e", "p",
       "s", "e", "e", "k", "-", "c", "h", "a", "t">>,
       \* deepseek/deepseek-r1
       <<"d", "e", "e", "p", "s", "e", "e", "k", "/", "d", "e", "e", "p",
       "s", "e", "e", "k", "-", "r", "1">>,
       \* meta-llama/llama-3.3-70b-instruct
       <<"m", "e", "t", "a", "-", "l", "l", "a", "m", "a", "/", "l", "l",
       "a", "m", "a", "-", "3", ".", "3", "-", "7", "0", "b", "-", "i",
       "n", "s", "t", "r", "u", "c", "t">>,
       \* mistralai/mistral-large-2411
       <<"m", "i", "s", "t", "r", "a", "l", "a", "i", "/", "m", "i", "s",
       "t", "r", "a", "l", "-", "l", "a", "r", "g", "e", "-", "2", "4",
       "1", "1">> >>

\* const DEFAULT_MODELS of the handler that keeps configStore
DEFAULT_MODELS ==
    << \* openai/gpt-4o
       <<"o", "p", "e", "n", "a", "i", "/", "g", "p", "t", "-", "4", "o">>,
       \* openai/gpt-4o-mini
       <<"o", "p", "e", "n", "a", "i", "/", "g", "p", "t", "-", "4", "o",
       "-", "m", "i", "n", "i">>,
       \* anthropic/claude-sonnet-4
       <<"a", "n", "t", "h", "r", "o", "p", "i", "c", "/", "c", "l", "a",
       "u", "d", "e", "-", "s", "o", "n", "n", "e", "t", "-", "4">>,
       \* anthropic/claude-3.5-sonnet
       <<"a", "n", "t", "h", "r", "o", "p", "i", "c", "/", "c", "l", "a",
       "u", "d", "e", "-", "3", ".", "5", "-", "s", "o", "n", "n", "e", "t">>,
       \* google/gemini-2.5-pro-preview-06-05
       <<"g", "o", "o", "g", "l", "e", "/", "g", "e", "m", "i", "n", "i",
       "-", "2", ".", "5", "-", "p", "r", "o", "-", "p", "r", "e", "v",
       "i", "e", "w", "-", "0", "6", "-", "0", "5">>,
       \* google/gemini-2.5-flash-preview-05-20
       <<"g", "o", "o", "g", "l", "e", "/", "g", "e", "m", "i", "n", "i",
       "-", "2", ".", "5", "-", "f", "l", "a", "s", "h", "-", "p", "r",
       "e", "v", "i", "e", "w", "-", "0", "5", "-", "2", "0">>,
       \* deepseek/deepseek-chat
       <<"d", "e", "e", "p", "s", "e", "e", "k", "/", "d", "e", "e", "p",
       "s", "e", "e", "k", "-", "c", "h", "a", "t">>,
       \* deepseek/deepseek-r1
       <<"d", "e", "e", "p", "s", "e", "e", "k", "/", "d", "e", "e", "p",
       "s", "e", "e", "k", "-", "r", "1">>,
       \* meta-llama/llama-3.3-70b-instruct
       <<"m", "e", "t", "a", "-", "l", "l", "a", "m", "a", "/", "l", "l",
       "a", "m", "a", "-", "3", ".", "3", "-", "7", "0", "b", "-", "i",
       "n", "s", "t", "r", "u", "c", "t">>,
       \* mistralai/mistral-large-2411
       <<"m", "i", "s", "t", "r", "a", "l", "a", "i", "/", "m", "i", "s",
       "t", "r", "a", "l", "-", "l", "a", "r", "g", "e", "-", "2", "4",
       "1", "1">> >>

\* What getConfig builds when runtimeCache is null
FreshConfig ==
    LET envModels == env.DEFAULT_MODELS
        truthy == envModels # UndefStr /\ envModels # <<>>
    IN  [defaultModels |-> IF truthy /\ Trim(envModels) # <<>>
                           THEN ParseEnvModels(envModels)
                           ELSE FALLBACK_MODELS,
         updatedAt |-> clock,
         source |-> IF truthy THEN "environment" ELSE "fallback"]

\* Variant of getConfig: the configuration is built from the environment
\* on every call
getConfigAlwaysFresh ==
    [config |-> FreshConfig, reads |-> envReads + 1]

\* getConfig(): the config it returns and leaves in runtimeCache, and the
\* number of reads of process.env.DEFAULT_MODELS after it
getConfig ==
    IF runtimeCache # Null
    THEN [config |-> runtimeCache, reads |-> envReads]
    ELSE [config |-> FreshConfig, reads |-> envReads + 1]

\* updateConfig(models, username): the new runtimeCache
updateConfig(models, username) ==
    [defaultModels |-> models, updatedAt |-> clock,
     updatedBy |-> username, source |-> "admin"]

\* Variant of verifyAuth: without the check that ADMIN_PASSWORD is set
verifyAuthNoPasswordGuard(req) ==
    LET adminUsername ==
            IF env.ADMIN_USERNAME \in {UndefStr, <<>>} THEN Admin
            ELSE env.ADMIN_USERNAME
        adminPassword == env.ADMIN_PASSWORD
        authHeader == req.authorization
        decoded == Base64Decode(Slice(authHeader, 6))
        parts == Split(decoded, ":")
        username == parts[1]
        password == IF Len(parts) >= 2 THEN parts[2] ELSE UndefStr
    IN  IF authHeader \in {UndefStr, <<>>}
        THEN [valid |-> FALSE, error |-> "No authorization header"]
        ELSE IF StartsWith(authHeader, BasicPrefix)
                /\ username = adminUsername /\ password = adminPassword
        THEN [valid |-> TRUE, username |-> username]
        ELSE IF StartsWith(authHeader, BearerPrefix)
                /\ Slice(authHeader, 7) = adminPassword
        THEN [valid |-> TRUE, username |-> adminUsername]
        ELSE [valid |-> FALSE, error |-> "Invalid credentials"]

\* verifyAuth(req). `const [username, password] = decoded.split(':')` takes
\* the first two pieces; password is undefined when there is only one.
verifyAuth(req) ==
    LET adminUsername ==
            IF env.ADMIN_USERNAME \in {UndefStr, <<>>} THEN Admin
            ELSE env.ADMIN_USERNAME
        adminPassword == env.ADMIN_PASSWORD
        authHeader == req.authorization
        decoded == Base64Decode(Slice(authHeader, 6))
        parts == Split(decoded, ":")
        username == parts[1]
        password == IF Len(parts) >= 2 THEN parts[2] ELSE UndefStr
    IN  IF adminPassword \in {UndefStr, <<>>}
        THEN [valid |-> FALSE, error |-> "Server configuration error"]
        ELSE IF authHeader \in {UndefStr, <<>>}
        THEN [valid |-> FALSE, error |-> "No authorization header"]
        ELSE IF StartsWith(authHeader, BasicPrefix)
                /\ username = adminUsername /\ password = adminPassword
        THEN [valid |-> TRUE, username |-> username]
        ELSE IF StartsWith(authHeader, BearerPrefix)
                /\ Slice(authHeader, 7) = adminPassword
        THEN [valid |-> TRUE, username |-> adminUsername]
        ELSE [valid |-> FALSE, error |-> "Invalid credentials"]

\* Requests. The body is what the platform's JSON body parser leaves in
\* req.body: undefined, or an object whose defaultModels, when present, is
\* an array or something else.
Arr(items) == [kind |-> "array", items |-> items]

IdX == <<"x", "/", "1">>
IdY == <<"y", "/", "2">>
PostedLists == { <<>>, <<IdY, IdX>> }

ConfigBodies ==
    { Undefined, [kind |-> "object", defaultModels |-> [kind |-> "string"]] }
      \cup { [kind |-> "object", defaultModels |-> Arr(l)] : l \in PostedLists }

Passwords == { <<"s">>, <<"s", ":", "x">> }

AuthHeaders ==
    { UndefStr, BasicPrefix \o Base64(Admin), <<"D", "i", "g", "e", "s", "t", " ", "s">>,
      BearerPrefix }
      \cup { BasicPrefix \o Base64(u \o <<":">> \o p) :
               u \in {Admin, <<"u">>}, p \in Passwords }
      \cup { BearerPrefix \o t : t \in Passwords }

ConfigRequests ==
    { [method |-> m, authorization |-> UndefStr, body |-> Undefined] :
        m \in {"GET", "OPTIONS", "PUT"} }
      \cup { [method |-> "POST", authorization |-> h, body |-> b] :
               h \in AuthHeaders, b \in ConfigBodies }

ConfigEnvs ==
    [DEFAULT_MODELS : { UndefStr, <<"a", ",", " ", "b">> },
     ADMIN_USERNAME : { UndefStr, <<"u">> },
     ADMIN_PASSWORD : { UndefStr, <<>>, <<"s">>, <<"s", ":", "x">> }]

\* Array.isArray(defaultModels) for `const { defaultModels } = req.body`
\* The configStore that the module of the storing handler starts with
InitialStore ==
    [defaultModels |-> DEFAULT_MODELS, updatedAt |-> 1, updatedBy |-> System]

\* An instance runs one of the two versions: configStore exists only in an
\* instance of the handler that stores.
Deployed == IF configStore = Null THEN "cache" ELSE "store"

IsArrayBody(body) ==
    Has(body, "defaultModels") /\ body.defaultModels.kind = "array"

ConfigInit ==
    /\ HandlerInit
    /\ PriceIdle
    /\ UtilIdle
    /\ env \in ConfigEnvs
    /\ runtimeCache = Null
    /\ configStore \in { Null, InitialStore }
    /\ envReads = 0
    /\ cposted = [cache |-> Null, store |-> Null]
    /\ clast = [handler |-> "none"]
    /\ AppIdle
    /\ AdminIdle
    /\ StaticIdle

Unauthorized(auth) ==
    [status |-> 401, error |-> "Unauthorized", message |-> auth.error]
BadRequest ==
    [status |-> 400, error |-> "Bad Request",
     message |-> "defaultModels must be an array"]
ServerError == [status |-> 500, error |-> "Internal Server Error"]
NotAllowed == [status |-> 405, error |-> "Method not allowed"]

\* What is kept of a request handled by the handler that keeps
\* runtimeCache; warm tells whether runtimeCache was already set when the
\* request arrived
CacheReply(req, reply) ==
    [handler |-> "cache", warm |-> runtimeCache # Null, req |-> req, resp |-> reply]

\* What is kept of a request handled by the handler that keeps configStore
StoreReply(req, reply) ==
    [handler |-> "store", req |-> req, resp |-> reply]

\* The handler that keeps runtimeCache, on one request
ConfigHandler(req) ==
    /\ clast # Null
    /\ Deployed = "cache"
    /\ LET auth == verifyAuth(req)
           g == getConfig
       IN  IF req.method = "OPTIONS"
           THEN /\ clast' = CacheReply(req, [status |-> 200])
                /\ UNCHANGED <<runtimeCache, envReads, cposted>>
           ELSE IF req.method = "GET"
           THEN /\ runtimeCache' = g.config
                /\ envReads' = g.reads
                /\ clast' = CacheReply(req, [status |-> 200,
                                defaultModels |-> g.config.defaultModels,
                                count |-> Len(g.config.defaultModels),
                                source |-> g.config.source,
                                updatedAt |-> g.config.updatedAt])
                /\ UNCHANGED cposted
           ELSE IF req.method = "POST"
           THEN IF ~auth.valid
                THEN /\ clast' = CacheReply(req, Unauthorized(auth))
                     /\ UNCHANGED <<runtimeCache, envReads, cposted>>
                ELSE IF req.body = Undefined
                THEN /\ clast' = CacheReply(req, ServerError)
                     /\ UNCHANGED <<runtimeCache, envReads, cposted>>
                ELSE IF ~IsArrayBody(req.body)
                THEN /\ clast' = CacheReply(req, BadRequest)
                     /\ UNCHANGED <<runtimeCache, envReads, cposted>>
                ELSE LET defaultModels == req.body.defaultModels.items
                         config == updateConfig(defaultModels, auth.username)
                     IN  /\ runtimeCache' = config
                         /\ cposted' = [cposted EXCEPT !.cache = Arr(defaultModels)]
                         /\ clast' = CacheReply(req, [status |-> 200, success |-> TRUE,
                                         defaultModels |-> config.defaultModels,
                                         count |-> Len(config.defaultModels),
                                         updatedAt |-> config.updatedAt,
                                         envValue |-> Join(defaultModels, ",")])
                         /\ UNCHANGED envReads
           ELSE /\ clast' = CacheReply(req, NotAllowed)
                /\ UNCHANGED <<runtimeCache, envReads, cposted>>
    /\ UNCHANGED <<env, configStore>>

\* The handler that keeps configStore, on one request
StoreHandler(req) ==
    /\ clast # Null
    /\ Deployed = "store"
    /\ LET auth == verifyAuth(req)
       IN  IF req.method = "OPTIONS"
           THEN /\ clast' = StoreReply(req, [status |-> 200])
                /\ UNCHANGED <<configStore, cposted>>
           ELSE IF req.method = "GET"
           THEN /\ clast' = StoreReply(req, [status |-> 200,
                                defaultModels |-> configStore.defaultModels,
                                updatedAt |-> configStore.updatedAt,
                                count |-> Len(configStore.defaultModels)])
                /\ UNCHANGED <<configStore, cposted>>
           ELSE IF req.method = "POST"
           THEN IF ~auth.valid
                THEN /\ clast' = StoreReply(req, Unauthorized(auth))
                     /\ UNCHANGED <<configStore, cposted>>
                ELSE IF req.body = Undefined
                THEN /\ clast' = StoreReply(req, ServerError)
                     /\ UNCHANGED <<configStore, cposted>>
                ELSE IF ~IsArrayBody(req.body)
                THEN /\ clast' = StoreReply(req, BadRequest)
                     /\ UNCHANGED <<configStore, cposted>>
                ELSE LET defaultModels == req.body.defaultModels.items
                         stored == [defaultModels |-> defaultModels,
                                    updatedAt |-> clock,
                                    updatedBy |-> auth.username]
                     IN  /\ configStore' = stored
                         /\ cposted' = [cposted EXCEPT !.store = Arr(defaultModels)]
                         /\ clast' = StoreReply(req, [status |-> 200, success |-> TRUE,
                                         message |-> "Configuration updated",
                                         defaultModels |-> stored.defaultModels,
                                         updatedAt |-> stored.updatedAt,
                                         updatedBy |-> stored.updatedBy])
           ELSE /\ clast' = StoreReply(req, NotAllowed)
                /\ UNCHANGED <<configStore, cposted>>
    /\ UNCHANGED <<env, runtimeCache, envReads>>

\* A request to an instance, with nothing else going on
ConfigRequest(req) ==
    ConfigHandler(req) /\ UNCHANGED <<hvars, pvars, uvars, avars, mvars, svars>>
StoreRequest(req) ==
    StoreHandler(req) /\ UNCHANGED <<hvars, pvars, uvars, avars, mvars, svars>>

ConfigNext ==
    \/ \E req \in ConfigRequests : ConfigRequest(req)
    \/ \E req \in ConfigRequests : StoreRequest(req)

ConfigSpec == ConfigInit /\ [][ConfigNext]_vars

\* The credentials that the configuration of the instance makes valid: the
\* header 'Basic ' + base64(username + ':' + password) for the configured
\* (or default) username and password, or 'Bearer ' + password
ValidCredentials(req) ==
    LET adminUsername ==
            IF env.ADMIN_USERNAME \in {UndefStr, <<>>}
            THEN <<"a", "d", "m", "i", "n">> ELSE env.ADMIN_USERNAME
        header == req.authorization
    IN  /\ env.ADMIN_PASSWORD \notin {UndefStr, <<>>}
        /\ header # UndefStr
        /\ \/ /\ Len(header) >= 6
              /\ SubSeq(header, 1, 6) = <<"B", "a", "s", "i", "c", " ">>
              /\ Base64Decode(SubSeq(header, 7, Len(header)))
                   = adminUsername \o <<":">> \o env.ADMIN_PASSWORD
           \/ header = <<"B", "e", "a", "r", "e", "r", " ">> \o env.ADMIN_PASSWORD

ConfigStep == clast # Null /\ clast.handler # "none"

\* C14 as stated: a POST is accepted only with the configured credentials
\* (Basic username and password, or Bearer password); a POST with a missing
\* header or any other credential is answered 401; a GET is never answered
\* 401.
C14_Original ==
    ConfigStep =>
        /\ (clast.req.method = "POST" /\ ~ValidCredentials(clast.req)) =>
              clast.resp.status = 401
        /\ clast.req.method = "GET" => clast.resp.status = 200

\* C15 as stated: a POST with valid credentials and an array defaultModels
\* takes effect, and from then on every GET of that handler returns the
\* posted array and its length, until the next such POST.
C15_Original ==
    ConfigStep =>
        LET h == clast.handler IN
        /\ (clast.req.method = "POST" /\ ValidCredentials(clast.req)
              /\ "defaultModels" \in DOMAIN clast.req.body
              /\ clast.req.body.defaultModels.kind = "array") =>
                /\ clast.resp.status = 200
                /\ cposted[h] = clast.req.body.defaultModels
        /\ (clast.req.method = "GET" /\ cposted[h] # Null) =>
                /\ clast.resp.defaultModels = cposted[h].items
                /\ clast.resp.count = Len(cposted[h].items)


\* The default model list that the instance holds: what a GET returns
HeldList ==
    IF Deployed = "store" THEN configStore.defaultModels
    ELSE IF runtimeCache = Null THEN FreshConfig.defaultModels
    ELSE runtimeCache.defaultModels

\* The list the instance holds before any POST
InitialList ==
    IF Deployed = "store" THEN DEFAULT_MODELS ELSE FreshConfig.defaultModels

\* A step changes the held list only as an accepted POST of an array does,
\* and a step of another method or answered 401, 400 or 405 keeps it
ListFrame ==
    /\ HeldList' # HeldList =>
          /\ clast'.req.method = "POST"
          /\ verifyAuth(clast'.req).valid
          /\ IsArrayBody(clast'.req.body)
          /\ clast'.resp.status = 200
          /\ HeldList' = clast'.req.body.defaultModels.items
    /\ (clast'.req.method # "POST" \/ clast'.resp.status \in {401, 400, 405}) =>
          HeldList' = HeldList

\* The status that answers a request of each kind
ConfigStatuses ==
    ConfigStep =>
        /\ clast.req.method = "OPTIONS" => clast.resp = [status |-> 200]
        /\ clast.req.method \notin {"OPTIONS", "GET", "POST"} =>
               clast.resp.status = 405
        /\ (clast.req.method = "POST" /\ ~verifyAuth(clast.req).valid) =>
               clast.resp.status = 401
        /\ (clast.req.method = "POST" /\ verifyAuth(clast.req).valid
              /\ Has(clast.req.body, "defaultModels")
              /\ ~IsArrayBody(clast.req.body)) =>
               clast.resp.status = 400

\* C24: the list held by the /api/config handler changes only in a POST
\* that passes verifyAuth and carries an array defaultModels; GET, OPTIONS
\* (answered 200), another method (answered 405), a POST answered 401 and a
\* POST whose defaultModels is no array (answered 400) leave it as it was.
C24_OnlyAcceptedPostChanges == [][ListFrame]_vars /\ []ConfigStatuses

\* C24 witness: an authorised POST whose defaultModels is a text was
\* answered 400 and the list posted before it is still held
C24_Witness ==
    /\ ConfigStep
    /\ clast.req.method = "POST"
    /\ verifyAuth(clast.req).valid
    /\ clast.resp.status = 400
    /\ cposted[clast.handler] = Arr(<<IdY, IdX>>)
    /\ HeldList = <<IdY, IdX>>

\* C24 second witness: a GET after an accepted POST returned the posted
\* list
C24_WitnessGet ==
    /\ ConfigStep
    /\ clast.req.method = "GET"
    /\ cposted[clast.handler] = Arr(<<IdY, IdX>>)
    /\ HeldList = <<IdY, IdX>>
    /\ clast.resp.defaultModels = <<IdY, IdX>>

\* C25: with ADMIN_PASSWORD unset or empty every POST is answered 401,
\* whatever its Authorization header (Basic, Bearer, also a Bearer header
\* with an empty token), and the held list stays the initial one.
C25_NoPasswordNoPost ==
    (ConfigStep /\ env.ADMIN_PASSWORD \in {UndefStr, <<>>}) =>
        /\ clast.req.method = "POST" => clast.resp.status = 401
        /\ cposted = [cache |-> Null, store |-> Null]
        /\ HeldList = InitialList

\* C25 witness: with ADMIN_PASSWORD empty a POST of a list with the header
\* 'Bearer ' was answered 401
C25_Witness ==
    /\ ConfigStep
    /\ env.ADMIN_PASSWORD = <<>>
    /\ clast.req.method = "POST"
    /\ clast.req.authorization = <<"B", "e", "a", "r", "e", "r", " ">>
    /\ IsArrayBody(clast.req.body)
    /\ clast.resp.status = 401

\* C26 (as stated): for every configured ADMIN_USERNAME and ADMIN_PASSWORD
\* the header 'Basic ' + base64(ADMIN_USERNAME + ':' + ADMIN_PASSWORD) is
\* accepted by verifyAuth, also for a password that contains ':'.
C26_Original ==
    (ConfigStep /\ clast.req.method = "POST"
       /\ env.ADMIN_PASSWORD \notin {UndefStr, <<>>}
       /\ clast.req.authorization =
             <<"B", "a", "s", "i", "c", " ">>
               \o Base64((IF env.ADMIN_USERNAME \in {UndefStr, <<>>}
                          THEN <<"a", "d", "m", "i", "n">>
                          ELSE env.ADMIN_USERNAME)
                         \o <<":">> \o env.ADMIN_PASSWORD)) =>
        /\ verifyAuth(clast.req).valid
        /\ clast.resp.status # 401

----------------------------------------------------------------------------
(* Cold start of the caching config handler: GET requests on an instance   *)
(* whose DEFAULT_MODELS ranges over the short texts of commas, blanks and  *)
(* a letter.                                                               *)

MaxEnvLen == 4
    \* longest DEFAULT_MODELS value
EnvChars == {"a", ",", " "}

EnvModelValues ==
    {UndefStr} \cup UNION { [1 .. n -> EnvChars] : n \in 0 .. MaxEnvLen }

GetRequest == [method |-> "GET", authorization |-> UndefStr, body |-> Undefined]

ColdInit ==
    /\ HandlerInit
    /\ PriceIdle
    /\ UtilIdle
    /\ env \in [DEFAULT_MODELS : EnvModelValues,
                ADMIN_USERNAME : {UndefStr},
                ADMIN_PASSWORD : {<<"s">>}]
    /\ runtimeCache = Null
    /\ configStore = Null
    /\ envReads = 0
    /\ cposted = [cache |-> Null, store |-> Null]
    /\ clast = [handler |-> "none"]
    /\ AppIdle
    /\ AdminIdle
    /\ StaticIdle

ColdNext == ConfigRequest(GetRequest)

ColdSpec == ColdInit /\ [][ColdNext]_vars

\* The text t without the blanks at its two ends
Stripped(t) ==
    LET inked == { i \in 1 .. Len(t) : t[i] # " " }
    IN  IF inked = {} THEN <<>>
        ELSE LET lo == CHOOSE i \in inked : \A j \in inked : i <= j
                 hi == CHOOSE i \in inked : \A j \in inked : j <= i
             IN  [k \in 1 .. (hi - lo + 1) |-> t[lo + k - 1]]

\* The non-empty stripped pieces of s that lie between position c (a comma,
\* or 0) and the end, cut at the commas
RECURSIVE PiecesAfter(_, _)
PiecesAfter(s, c) ==
    LET cuts == { i \in (c + 1) .. Len(s) : s[i] = "," } \cup {Len(s) + 1}
        n == CHOOSE i \in cuts : \A j \in cuts : i <= j
        piece == Stripped([k \in 1 .. (n - c - 1) |-> s[c + k]])
        here == IF piece = <<>> THEN <<>> ELSE <<piece>>
    IN  IF n = Len(s) + 1 THEN here ELSE here \o PiecesAfter(s, n)

\* C16: the first use of the config on a cold instance sets defaultModels
\* to the pieces of DEFAULT_MODELS between commas, trimmed, the empty ones
\* dropped, when the variable is set and not blank, and to FALLBACK_MODELS
\* otherwise; every later GET returns that same cached config, and the
\* environment is read once only.
C16_ColdStart ==
    (ConfigStep /\ clast.req.method = "GET") =>
        LET v == env.DEFAULT_MODELS
            blank == v = UndefStr \/ \A i \in 1 .. Len(v) : v[i] = " "
        IN  /\ envReads = 1
            /\ runtimeCache # Null
            /\ runtimeCache.defaultModels =
                  (IF blank THEN FALLBACK_MODELS ELSE PiecesAfter(v, 0))
            /\ clast.resp.status = 200
            /\ clast.resp.defaultModels = runtimeCache.defaultModels
            /\ clast.resp.count = Len(runtimeCache.defaultModels)
            /\ clast.resp.source = runtimeCache.source
            /\ clast.resp.updatedAt = runtimeCache.updatedAt

\* C16 witness: a GET on a warm instance has returned the list parsed from
\* " a,a" at the cold start
C16_Witness ==
    /\ ConfigStep
    /\ clast.req.method = "GET"
    /\ clast.warm
    /\ env.DEFAULT_MODELS = <<" ", "a", ",", "a">>
    /\ clast.resp.defaultModels = << <<"a">>, <<"a">> >>
    /\ envReads = 1

----------------------------------------------------------------------------
(* ModelSelector: the list of models offered for adding *)

\* The letters: upper case and lower case
CaseTable ==
    { <<"A", "a">>, <<"B", "b">>, <<"C", "c">>, <<"D", "d">>, <<"E", "e">>,
      <<"F", "f">>, <<"G", "g">>, <<"H", "h">>, <<"I", "i">>, <<"J", "j">>,
      <<"K", "k">>, <<"L", "l">>, <<"M", "m">>, <<"N", "n">>, <<"O", "o">>,
      <<"P", "p">>, <<"Q", "q">>, <<"R", "r">>, <<"S", "s">>, <<"T", "t">>,
      <<"U", "u">>, <<"V", "v">>, <<"W", "w">>, <<"X", "x">>, <<"Y", "y">>,
      <<"Z", "z">> }

\* c.toLowerCase() for one character
LowerChar(c) ==
    IF \E p \in CaseTable : p[1] = c
    THEN (CHOOSE p \in CaseTable : p[1] = c)[2]
    ELSE c

\* s.toLowerCase()
ToLowerCase(s) == [k \in 1 .. Len(s) |-> LowerChar(s[k])]

\* s.includes(q)
Includes(s, q) ==
    \E i \in 0 .. (Len(s) - Len(q)) : SubSeq(s, i + 1, i + Len(q)) = q

SliceLimit == 50

\* Variant of availableModels: the search is made on the texts as they are
availableModelsCaseSensitive(allModels, selectedIds, searchQuery) ==
    LET NotSelected(m) == m.id \notin selectedIds
        query == searchQuery
        Matches(m) ==
            \/ Includes(m.name, query)
            \/ Includes(m.id, query)
            \/ Includes(m.provider, query)
        unselected == SelectSeq(allModels, NotSelected)
        models == IF searchQuery # <<>>
                  THEN SelectSeq(unselected, Matches) ELSE unselected
    IN  SubSeq(models, 1, IF Len(models) < SliceLimit THEN Len(models) ELSE SliceLimit)

\* The value of the useMemo `availableModels`
availableModels(allModels, selectedIds, searchQuery) ==
    LET NotSelected(m) == m.id \notin selectedIds
        query == ToLowerCase(searchQuery)
        Matches(m) ==
            \/ Includes(ToLowerCase(m.name), query)
            \/ Includes(ToLowerCase(m.id), query)
            \/ Includes(ToLowerCase(m.provider), query)
        unselected == SelectSeq(allModels, NotSelected)
        models == IF searchQuery # <<>>
                  THEN SelectSeq(unselected, Matches) ELSE unselected
    IN  SubSeq(models, 1, IF Len(models) < SliceLimit THEN Len(models) ELSE SliceLimit)

MaxListLen == 2
    \* longest of the short lists of models given to ModelSelector
MaxQueryLen == 2
    \* longest search text

\* Models as ModelSelector reads them: id, name and provider
ModelPool ==
    { [id |-> <<"a", "/", "b">>, name |-> <<"B", "b">>, provider |-> <<"a">>],
      [id |-> <<"b">>, name |-> <<"A">>, provider |-> Unknown],
      [id |-> <<"u", "/", "a">>, name |-> <<"a">>, provider |-> <<"u">>] }

\* The k-th of a long run of models with ids of their own
NumberedModel(k) ==
    [id |-> <<"a", "/">> \o ToStr(k), name |-> <<"N">> \o ToStr(k),
     provider |-> <<"a">>]

QueryChars == {"a", "B", "u", "n"}
Queries == UNION { [1 .. n -> QueryChars] : n \in 0 .. MaxQueryLen }

SelectorInputs ==
    { [allModels |-> l, selectedIds |-> s, searchQuery |-> q] :
        l \in UNION { [1 .. n -> ModelPool] : n \in 0 .. MaxListLen },
        s \in SUBSET { m.id : m \in ModelPool },
        q \in Queries }
      \cup
    { [allModels |-> [k \in 1 .. n |-> NumberedModel(k)],
       selectedIds |-> s, searchQuery |-> q] :
        n \in (SliceLimit - 1) .. (SliceLimit + 2),
        s \in { {}, {NumberedModel(1).id}, {NumberedModel(SliceLimit + 1).id} },
        q \in { <<>>, <<"A">>, <<"n", "1">> } }

SelectorInit ==
    /\ HandlerInit
    /\ PriceIdle
    /\ arg \in SelectorInputs
    /\ ret = Null
    /\ done = FALSE
    /\ ConfigIdle
    /\ AppIdle
    /\ AdminIdle
    /\ StaticIdle

RenderSelector ==
    /\ ~done
    /\ arg \in SelectorInputs
    /\ ret' = [offered |->
                 availableModels(arg.allModels, arg.selectedIds, arg.searchQuery)]
    /\ done' = TRUE
    /\ UNCHANGED <<hvars, pvars, arg, cvars, avars, mvars, svars>>

SelectorNext == RenderSelector

SelectorSpec == SelectorInit /\ [][SelectorNext]_vars

\* Whether the text s contains the text q when upper and lower case are
\* taken as equal
ContainsAnyCase(s, q) ==
    \E i \in 0 .. (Len(s) - Len(q)) :
        \A j \in 1 .. Len(q) :
            \/ s[i + j] = q[j]
            \/ <<s[i + j], q[j]>> \in CaseTable
            \/ <<q[j], s[i + j]>> \in CaseTable

\* The positions in arg.allModels of the models that may be offered
Offerable ==
    { k \in 1 .. Len(arg.allModels) :
        /\ arg.allModels[k].id \notin arg.selectedIds
        /\ arg.searchQuery # <<>> =>
              \/ ContainsAnyCase(arg.allModels[k].name, arg.searchQuery)
              \/ ContainsAnyCase(arg.allModels[k].id, arg.searchQuery)
              \/ ContainsAnyCase(arg.allModels[k].provider, arg.searchQuery) }

\* C19: availableModels is the first 50, in allModels order, of the models
\* that are not selected and, for a non-empty search text, contain it in
\* name, id or provider whatever the case; no selected model is offered.
C19_FirstFiftyOffered ==
    done =>
        /\ Len(ret.offered) =
              (IF Cardinality(Offerable) < 50 THEN Cardinality(Offerable) ELSE 50)
        /\ \A j \in 1 .. Len(ret.offered) :
              \E k \in Offerable :
                 /\ Cardinality({ e \in Offerable : e <= k }) = j
                 /\ ret.offered[j] = arg.allModels[k]
        /\ \A j \in 1 .. Len(ret.offered) : ret.offered[j].id \notin arg.selectedIds

\* C19 witness: of 52 models, one of them selected, the first 50 of the
\* other 51 are offered for a search text in another case
C19_Witness ==
    /\ done
    /\ Len(arg.allModels) = 52
    /\ arg.selectedIds = {<<"a", "/", "1">>}
    /\ arg.searchQuery = <<"A">>
    /\ Len(ret.offered) = 50
    /\ ret.offered[1].id = <<"a", "/", "2">>
    /\ ret.offered[50].id = <<"a", "/", "5", "1">>

----------------------------------------------------------------------------
(* The React component App (src/src/App.tsx, lines 20-243)                 *)
(*                                                                         *)
(* App loads the model data and the default ids once, on mount; after the  *)
(* load the user adds and removes models, resets the selection and sorts   *)
(* the table. The screen with the toolbar and the table is rendered only   *)
(* when loading is false and error is null, so only then can the user act. *)

\* const FALLBACK_MODEL_IDS of App
FALLBACK_MODEL_IDS ==
    << \* openai/gpt-4o
       <<"o", "p", "e", "n", "a", "i", "/", "g", "p", "t", "-", "4", "o">>,
       \* openai/gpt-4o-mini
       <<"o", "p", "e", "n", "a", "i", "/", "g", "p", "t", "-", "4", "o",
       "-", "m", "i", "n", "i">>,
       \* anthropic/claude-sonnet-4
       <<"a", "n", "t", "h", "r", "o", "p", "i", "c", "/", "c", "l", "a",
       "u", "d", "e", "-", "s", "o", "n", "n", "e", "t", "-", "4">>,
       \* anthropic/claude-3.5-sonnet
       <<"a", "n", "t", "h", "r", "o", "p", "i", "c", "/", "c", "l", "a",
       "u", "d", "e", "-", "3", ".", "5", "-", "s", "o", "n", "n", "e", "t">>,
       \* google/gemini-2.5-pro-preview-06-05
       <<"g", "o", "o", "g", "l", "e", "/", "g", "e", "m", "i", "n", "i",
       "-", "2", ".", "5", "-", "p", "r", "o", "-", "p", "r", "e", "v",
       "i", "e", "w", "-", "0", "6", "-", "0", "5">>,
       \* deepseek/deepseek-chat
       <<"d", "e", "e", "p", "s", "e", "e", "k", "/", "d", "e", "e", "p",
       "s", "e", "e", "k", "-", "c", "h", "a", "t">>,
       \* deepseek/deepseek-r1
       <<"d", "e", "e", "p", "s", "e", "e", "k", "/", "d", "e", "e", "p",
       "s", "e", "e", "k", "-", "r", "1">>,
       \* meta-llama/llama-3.3-70b-instruct
       <<"m", "e", "t", "a", "-", "l", "l", "a", "m", "a", "/", "l", "l",
       "a", "m", "a", "-", "3", ".", "3", "-", "7", "0", "b", "-", "i",
       "n", "s", "t", "r", "u", "c", "t">>,
       \* mistralai/mistral-large-2411
       <<"m", "i", "s", "t", "r", "a", "l", "a", "i", "/", "m", "i", "s",
       "t", "r", "a", "l", "-", "l", "a", "r", "g", "e", "-", "2", "4",
       "1", "1">> >>

\* JavaScript values read by App: a string, null
Str(s) == [kind |-> "string", val |-> s]
JsNull == [kind |-> "null"]

\* Number(v) for a number or null
ToNumber(v) == IF v.kind = "null" THEN 0 ELSE v.val

\* The models of the payloads: two of them carry ids of FALLBACK_MODEL_IDS.
\* A price is a number of thousandths, or null (formatPrice found no number)
ModelGpt ==
    [id |-> FALLBACK_MODEL_IDS[1], name |-> <<"B", "e", "t", "a">>,
     provider |-> <<"o", "p", "e", "n", "a", "i">>,
     contextLength |-> 128000, maxOutput |-> 16384,
     inputPrice |-> Num(2500), outputPrice |-> Num(10000)]
ModelR1 ==
    [id |-> FALLBACK_MODEL_IDS[7], name |-> <<"A", "l", "f", "a">>,
     provider |-> <<"d", "e", "e", "p", "s", "e", "e", "k">>,
     contextLength |-> 64000, maxOutput |-> 0,
     inputPrice |-> JsNull, outputPrice |-> Num(2190)]
ModelX ==
    [id |-> IdX, name |-> <<"a", "l", "f", "a">>,
     provider |-> <<"x">>,
     contextLength |-> 128000, maxOutput |-> 4096,
     inputPrice |-> Num(0), outputPrice |-> JsNull]

\* The payload { totalCount, models } of /api/models and /data/models.json
ModelsData(models) == [totalCount |-> Len(models), models |-> models]

\* What a fetch comes to: the promise rejects, or it resolves to a response
\* with its ok flag and a body that is JSON text or not
Rejected == [kind |-> "reject"]
Response(ok, body) == [kind |-> "response", ok |-> ok, body |-> body]
InvalidBody == [kind |-> "invalid"]
Json(value) == [kind |-> "json", value |-> value]

ApiOutcomes ==
    { Rejected,
      Response(FALSE, InvalidBody),
      Response(TRUE, InvalidBody),
      Response(TRUE, Json(ModelsData(<<ModelGpt, ModelR1, ModelX>>))) }

FallbackOutcomes ==
    { Rejected,
      Response(FALSE, InvalidBody),
      Response(TRUE, Json(ModelsData(<<ModelX, ModelGpt>>))) }

ConfigOutcomes ==
    { Rejected,
      Response(FALSE, InvalidBody),
      Response(TRUE, InvalidBody),
      Response(TRUE, Json(JsNull)),
      Response(TRUE, Json([kind |-> "object"])),
      Response(TRUE, Json([kind |-> "object", defaultModels |-> Arr(<<>>)])),
      Response(TRUE, Json([kind |-> "object", defaultModels |-> Arr(<<IdX, IdY>>)])),
      Response(TRUE, Json([kind |-> "object", defaultModels |-> Str(<<"x">>)])) }

\* App is mounted: the useState initial values, and the effect has called
\* fetchData, whose three requests are under way
AppInit ==
    /\ HandlerInit
    /\ PriceIdle
    /\ UtilIdle
    /\ ConfigIdle
    /\ net \in [api : ApiOutcomes, fallback : FallbackOutcomes, config : ConfigOutcomes]
    /\ apc = "fetching"
    /\ allModelsData = Null
    /\ loading = TRUE
    /\ error = Null
    /\ serverDefaultIds = Arr(<<>>)
    /\ displayModelIds = {}
    /\ sortField = "inputPrice"
    /\ sortDirection = "asc"
    /\ shownAtLoad = Null
    /\ alast = [op |-> "mount"]
    /\ AdminIdle
    /\ StaticIdle

\* The catch block of fetchData
Fail(message) ==
    /\ error' = [message |-> message]
    /\ loading' = FALSE
    /\ apc' = "done"
    /\ alast' = [op |-> "failed"]

\* fetch('/api/models').catch(() => fetch('/data/models.json'))
ModelsRes == IF net.api.kind = "reject" THEN net.fallback ELSE net.api

\* fetch('/api/config').catch(() => null)
ConfigRes == IF net.config.kind = "reject" THEN Null ELSE net.config

\* fetchData from the settling of Promise.all to `await modelsRes.json()`
FetchSettle ==
    /\ apc = "fetching"
    /\ IF ModelsRes.kind = "reject"
       THEN Fail("Failed to fetch")
       ELSE IF ~ModelsRes.ok
       THEN Fail("data load failed")
       ELSE /\ apc' = "modelsJson"
            /\ alast' = [op |-> "settle"]
            /\ UNCHANGED <<loading, error>>
    /\ UNCHANGED <<net, allModelsData, serverDefaultIds, displayModelIds,
                   sortField, sortDirection, shownAtLoad>>
    /\ UNCHANGED <<hvars, pvars, uvars, cvars, mvars, svars>>

\* The ids of defaultIds that some model of modelsData carries
ValidIds(defaultIds, modelsData) ==
    SelectSeq(defaultIds,
              LAMBDA id : \E k \in 1 .. Len(modelsData.models) :
                              modelsData.models[k].id = id)

Range(s) == { s[k] : k \in 1 .. Len(s) }

\* The end of the try block: the defaults are stored and shown
FinishLoad(defaultIds, modelsData) ==
    /\ serverDefaultIds' = Arr(defaultIds)
    /\ displayModelIds' = Range(ValidIds(defaultIds, modelsData))
    /\ shownAtLoad' = displayModelIds'
    /\ loading' = FALSE
    /\ apc' = "done"
    /\ alast' = [op |-> "loaded"]
    /\ UNCHANGED error

\* fetchData from the result of modelsRes.json() to the next await, which
\* is configRes.json() when there is an ok config response, and else to
\* its end
FetchModelsJson ==
    /\ apc = "modelsJson"
    /\ IF ModelsRes.body.kind = "invalid"
       THEN /\ Fail("Unexpected token")
            /\ UNCHANGED <<allModelsData, serverDefaultIds, displayModelIds,
                           shownAtLoad>>
       ELSE /\ allModelsData' = ModelsRes.body.value
            /\ IF ConfigRes # Null /\ ConfigRes.ok
               THEN /\ apc' = "configJson"
                    /\ alast' = [op |-> "models"]
                    /\ UNCHANGED <<loading, error, serverDefaultIds,
                                   displayModelIds, shownAtLoad>>
               ELSE FinishLoad(FALLBACK_MODEL_IDS, ModelsRes.body.value)
    /\ UNCHANGED <<net, sortField, sortDirection>>
    /\ UNCHANGED <<hvars, pvars, uvars, cvars, mvars, svars>>

\* fetchData from the result of configRes.json() to its end
FetchConfigJson ==
    /\ apc = "configJson"
    /\ LET body == ConfigRes.body IN
       IF body.kind = "invalid"
       THEN /\ Fail("Unexpected token")
            /\ UNCHANGED <<serverDefaultIds, displayModelIds, shownAtLoad>>
       ELSE IF body.value.kind = "null"
       THEN /\ Fail("Cannot read properties of null")
            /\ UNCHANGED <<serverDefaultIds, displayModelIds, shownAtLoad>>
       ELSE LET configData == body.value
                given == "defaultModels" \in DOMAIN configData
            IN  IF given /\ configData.defaultModels.kind = "string"
                         /\ Len(configData.defaultModels.val) > 0
                THEN \* the text becomes defaultIds, and has no filter
                     /\ serverDefaultIds' = configData.defaultModels
                     /\ Fail("defaultIds.filter is not a function")
                     /\ UNCHANGED <<displayModelIds, shownAtLoad>>
                ELSE IF given /\ configData.defaultModels.kind = "array"
                              /\ Len(configData.defaultModels.items) > 0
                THEN FinishLoad(configData.defaultModels.items, allModelsData)
                ELSE FinishLoad(FALLBACK_MODEL_IDS, allModelsData)
    /\ UNCHANGED <<net, allModelsData, sortField, sortDirection>>
    /\ UNCHANGED <<hvars, pvars, uvars, cvars, mvars, svars>>

\* The toolbar and the table are on the screen
Interactive == apc # "none" /\ ~loading /\ error = Null

ModelIds == Range([k \in 1 .. Len(allModelsData.models) |-> allModelsData.models[k].id])

\* addModel(modelId), called by ModelSelector for a model it offers
AddModel ==
    /\ Interactive
    /\ \E modelId \in ModelIds \ displayModelIds :
          displayModelIds' = displayModelIds \cup {modelId}
    /\ alast' = [op |-> "add"]
    /\ UNCHANGED <<net, apc, allModelsData, loading, error, serverDefaultIds,
                   sortField, sortDirection, shownAtLoad>>
    /\ UNCHANGED <<hvars, pvars, uvars, cvars, mvars, svars>>

\* removeModel(modelId), called by ModelTable for a row it shows
RemoveModel ==
    /\ Interactive
    /\ \E modelId \in displayModelIds :
          displayModelIds' = displayModelIds \ {modelId}
    /\ alast' = [op |-> "remove"]
    /\ UNCHANGED <<net, apc, allModelsData, loading, error, serverDefaultIds,
                   sortField, sortDirection, shownAtLoad>>
    /\ UNCHANGED <<hvars, pvars, uvars, cvars, mvars, svars>>

\* resetToDefault() that shows every default id, also of no model
ResetToDefaultUnfiltered ==
    /\ Interactive
    /\ IF allModelsData # Null
       THEN displayModelIds' = Range(serverDefaultIds.items)
       ELSE UNCHANGED displayModelIds
    /\ alast' = [op |-> "reset", before |-> displayModelIds,
                 repeated |-> alast.op = "reset"]
    /\ UNCHANGED <<net, apc, allModelsData, loading, error, serverDefaultIds,
                   sortField, sortDirection, shownAtLoad>>
    /\ UNCHANGED <<hvars, pvars, uvars, cvars, mvars, svars>>

\* resetToDefault()
ResetToDefault ==
    /\ Interactive
    /\ IF allModelsData # Null
       THEN displayModelIds' = Range(ValidIds(serverDefaultIds.items, allModelsData))
       ELSE UNCHANGED displayModelIds
    /\ alast' = [op |-> "reset", before |-> displayModelIds,
                 repeated |-> alast.op = "reset"]
    /\ UNCHANGED <<net, apc, allModelsData, loading, error, serverDefaultIds,
                   sortField, sortDirection, shownAtLoad>>
    /\ UNCHANGED <<hvars, pvars, uvars, cvars, mvars, svars>>

\* type SortField
SortFields ==
    {"name", "provider", "contextLength", "maxOutput", "inputPrice", "outputPrice"}

\* a[sortField]
FieldValue(m, field) ==
    CASE field = "name" -> Str(m.name)
      [] field = "provider" -> Str(m.provider)
      [] field = "contextLength" -> Num(m.contextLength)
      [] field = "maxOutput" -> Num(m.maxOutput)
      [] field = "inputPrice" -> m.inputPrice
      [] field = "outputPrice" -> m.outputPrice

\* a < b for two strings: the first differing code unit decides, and a
\* proper prefix is the smaller
RECURSIVE StrLess(_, _)
StrLess(a, b) ==
    IF b = <<>> THEN FALSE
    ELSE IF a = <<>> THEN TRUE
    ELSE IF Code(a[1]) < Code(b[1]) THEN TRUE
    ELSE IF Code(a[1]) > Code(b[1]) THEN FALSE
    ELSE StrLess(Tail(a), Tail(b))

\* aVal < bVal: two strings by their code units, and else as numbers
Less(aVal, bVal) ==
    IF aVal.kind = "string" /\ bVal.kind = "string"
    THEN StrLess(aVal.val, bVal.val)
    ELSE ToNumber(aVal) < ToNumber(bVal)

\* The comparator that compares the strings as they are
compareModelsCaseSensitive(a, b, field, direction) ==
    LET aVal == FieldValue(a, field)
        bVal == FieldValue(b, field)
    IN  IF Less(aVal, bVal) THEN (IF direction = "asc" THEN -1 ELSE 1)
        ELSE IF Less(bVal, aVal) THEN (IF direction = "asc" THEN 1 ELSE -1)
        ELSE 0

\* The comparator given to models.sort
compareModels(a, b, field, direction) ==
    LET aRaw == FieldValue(a, field)
        bRaw == FieldValue(b, field)
        \* typeof aVal === 'string'; bVal is then taken to be a string too,
        \* as it is for every field of the payloads
        isString == aRaw.kind = "string"
        aVal == IF isString THEN Str(ToLowerCase(aRaw.val)) ELSE aRaw
        bVal == IF isString THEN Str(ToLowerCase(bRaw.val)) ELSE bRaw
    IN  IF Less(aVal, bVal) THEN (IF direction = "asc" THEN -1 ELSE 1)
        ELSE IF Less(bVal, aVal) THEN (IF direction = "asc" THEN 1 ELSE -1)
        ELSE 0

\* x put into the sorted list, behind the elements that are not after it
RECURSIVE InsertSorted(_, _, _, _)
InsertSorted(x, sorted, field, direction) ==
    IF sorted = <<>> THEN <<x>>
    ELSE IF compareModels(Head(sorted), x, field, direction) > 0
    THEN <<x>> \o sorted
    ELSE <<Head(sorted)>> \o InsertSorted(x, Tail(sorted), field, direction)

\* models.sort(comparator): Array.prototype.sort is stable
RECURSIVE SortModels(_, _, _)
SortModels(models, field, direction) ==
    IF models = <<>> THEN <<>>
    ELSE InsertSorted(models[Len(models)],
                      SortModels(SubSeq(models, 1, Len(models) - 1), field, direction),
                      field, direction)

\* The value of the useMemo `displayedModels`
displayedModels ==
    IF allModelsData = Null THEN <<>>
    ELSE SortModels(SelectSeq(allModelsData.models,
                              LAMBDA m : m.id \in displayModelIds),
                    sortField, sortDirection)

\* ModelTable returns null for an empty list of models (the parent shows
\* the empty state instead), and otherwise renders the table with its
\* column headers
ModelTableRendered == displayedModels # <<>>

\* handleSort(field), called by ModelTable when one of the column headers
\* it renders is clicked
HandleSort ==
    /\ Interactive
    /\ ModelTableRendered
    /\ \E field \in SortFields :
          /\ IF sortField = field
             THEN /\ sortDirection' = (IF sortDirection = "asc" THEN "desc" ELSE "asc")
                  /\ UNCHANGED sortField
             ELSE /\ sortField' = field
                  /\ sortDirection' = "asc"
          /\ alast' = [op |-> "sort", field |-> field,
                       from |-> [field |-> sortField, direction |-> sortDirection]]
    /\ UNCHANGED <<net, apc, allModelsData, loading, error, serverDefaultIds,
                   displayModelIds, shownAtLoad>>
    /\ UNCHANGED <<hvars, pvars, uvars, cvars, mvars, svars>>

AppNext ==
    \/ FetchSettle
    \/ FetchModelsJson
    \/ FetchConfigJson
    \/ AddModel
    \/ RemoveModel
    \/ ResetToDefault
    \/ HandleSort

AppSpec == AppInit /\ [][AppNext]_vars

\* The default ids the environment of this run gives: the list of the
\* config response when it is ok and carries a non-empty list, and else
\* FALLBACK_MODEL_IDS
ExpectedDefaults ==
    LET c == net.config
        listed == /\ c.kind = "response"
                  /\ c.ok
                  /\ c.body.kind = "json"
                  /\ c.body.value.kind = "object"
                  /\ "defaultModels" \in DOMAIN c.body.value
                  /\ c.body.value.defaultModels.kind = "array"
                  /\ c.body.value.defaultModels.items # <<>>
    IN  IF listed THEN Range(c.body.value.defaultModels.items)
        ELSE Range(FALLBACK_MODEL_IDS)

\* C17: after resetToDefault with model data loaded, displayModelIds is
\* exactly the set of default ids (the server's list, or FALLBACK_MODEL_IDS
\* when the config request failed or gave no or an empty list) that models
\* of allModelsData carry, whatever was added and removed before; it is the
\* set shown right after the initial load, and a reset that follows a reset
\* changes nothing.
C17_ResetRestoresDefaults ==
    /\ alast # Null /\ alast.op \in {"reset", "loaded"} =>
          displayModelIds = ExpectedDefaults \cap ModelIds
    /\ alast # Null /\ alast.op = "reset" =>
          /\ displayModelIds = shownAtLoad
          /\ alast.repeated => alast.before = displayModelIds

\* C17 witness: a reset that follows additions and removals brings back
\* the one id of the server's two that a model carries
C17_Witness ==
    /\ alast # Null
    /\ alast.op = "reset"
    /\ alast.before = {FALLBACK_MODEL_IDS[1], FALLBACK_MODEL_IDS[7]}
    /\ serverDefaultIds = Arr(<<IdX, IdY>>)
    /\ displayModelIds = {IdX}

\* C17 witness of the fallback: with a failed config request a reset of an
\* emptied table shows the two fallback ids that models carry
C17_WitnessFallback ==
    /\ alast # Null
    /\ alast.op = "reset"
    /\ alast.before = {}
    /\ net.config.kind = "reject"
    /\ displayModelIds = {FALLBACK_MODEL_IDS[1], FALLBACK_MODEL_IDS[7]}

\* The code of a character with upper case taken as lower case
FoldCode(c) == IF Code(c) \in 65 .. 90 THEN Code(c) + 32 ELSE Code(c)

\* Whether text a comes before text b when case is left out of account
RECURSIVE FoldBefore(_, _)
FoldBefore(a, b) ==
    IF b = <<>> THEN FALSE
    ELSE IF a = <<>> THEN TRUE
    ELSE IF FoldCode(a[1]) # FoldCode(b[1]) THEN FoldCode(a[1]) < FoldCode(b[1])
    ELSE FoldBefore(Tail(a), Tail(b))

\* Whether model a has to come before model b in the table as sorted now
MustPrecede(a, b) ==
    LET lo == IF sortDirection = "asc" THEN a ELSE b
        hi == IF sortDirection = "asc" THEN b ELSE a
    IN  CASE sortField = "name" -> FoldBefore(lo.name, hi.name)
          [] sortField = "provider" -> FoldBefore(lo.provider, hi.provider)
          [] sortField = "contextLength" -> lo.contextLength < hi.contextLength
          [] sortField = "maxOutput" -> lo.maxOutput < hi.maxOutput
          [] sortField = "inputPrice" -> ToNumber(lo.inputPrice) < ToNumber(hi.inputPrice)
          [] sortField = "outputPrice" -> ToNumber(lo.outputPrice) < ToNumber(hi.outputPrice)

\* C18: handleSort(field) on the current field flips the direction between
\* asc and desc and keeps the field, on another field makes it the sort
\* field with direction asc; App starts with inputPrice/asc; displayedModels
\* always holds the displayed models ordered by the current field in the
\* current direction, strings compared without regard to case.
C18_SortState ==
    /\ alast # Null /\ alast.op = "mount" =>
          sortField = "inputPrice" /\ sortDirection = "asc"
    /\ alast # Null /\ alast.op = "sort" =>
          IF alast.field = alast.from.field
          THEN /\ sortField = alast.from.field
               /\ sortDirection # alast.from.direction
               /\ sortDirection \in {"asc", "desc"}
          ELSE /\ sortField = alast.field
               /\ sortDirection = "asc"
    /\ apc # "none" =>
          /\ { displayedModels[k].id : k \in 1 .. Len(displayedModels) }
                = (IF allModelsData = Null THEN {} ELSE displayModelIds \cap ModelIds)
          /\ Len(displayedModels) =
                (IF allModelsData = Null THEN 0
                 ELSE Cardinality(displayModelIds \cap ModelIds))
          /\ \A i, j \in 1 .. Len(displayedModels) :
                i < j => ~MustPrecede(displayedModels[j], displayedModels[i])

\* C18 witness: a second click on the name column sorts the three models by
\* name downwards: Beta before the two spellings of alfa
C18_Witness ==
    /\ alast # Null
    /\ alast.op = "sort"
    /\ alast.field = "name"
    /\ alast.from = [field |-> "name", direction |-> "asc"]
    /\ sortDirection = "desc"
    /\ Len(displayedModels) = 3
    /\ displayedModels[1].name = <<"B", "e", "t", "a">>
    /\ displayedModels[2].name = <<"A", "l", "f", "a">>
    /\ displayedModels[3].name = <<"a", "l", "f", "a">>

\* Whether the request for the model data came to nothing: /api/models, or
\* /data/models.json after a rejected /api/models, was rejected, answered
\* with a status that is not ok, or answered with a body that is not JSON
ModelDataNotObtained ==
    \/ ModelsRes.kind = "reject"
    \/ ~ModelsRes.ok
    \/ ModelsRes.body.kind = "invalid"

\* C20 (as stated): App is in the load-failed state (error non-null,
\* loading false) only when the model data could not be obtained from
\* /api/models or from the /data/models.json fallback; when only the
\* /api/config request fails, App ends loaded with FALLBACK_MODEL_IDS as
\* its defaults.
C20_Original ==
    /\ apc # "none" /\ error # Null /\ ~loading => ModelDataNotObtained
    /\ apc = "done" /\ ~ModelDataNotObtained
         /\ (net.config.kind = "reject" \/ ~net.config.ok) =>
          /\ error = Null
          /\ ~loading
          /\ serverDefaultIds = Arr(FALLBACK_MODEL_IDS)
----------------------------------------------------------------------------
(* The React component AdminPage (src/unnamed/part_003, lines 189-510)     *)
(* talking to an instance of the /api/config handler                       *)
(*                                                                         *)
(* adminPage holds the useState values of the component under their        *)
(* names, and next to them what is not React state: the sessionStorage     *)
(* item adminAuth; `mounted`, false once a render has thrown and React has *)
(* removed the component; `at`, the await at which loadData stands;        *)
(* `getRes`, the response the handler has produced for loadData's GET and  *)
(* that has not been delivered yet; and `posts`, the POST requests of      *)
(* handleLogin and handleSave that are in flight. A request is sent in one *)
(* step, handled by the instance in another, and its continuations in the  *)
(* page run when the fetch promise and then the body promise settle;       *)
(* requests are handled and answered in any order. The setters of a        *)
(* component that is no longer mounted change nothing.                     *)

\* new Set(list), kept as Array.from gives it back: the first occurrence of
\* each element, in order
RECURSIVE SetOf(_)
SetOf(list) ==
    IF list = <<>> THEN <<>>
    ELSE LET front == SetOf(SubSeq(list, 1, Len(list) - 1))
             x == list[Len(list)]
         IN  IF \E k \in 1 .. Len(front) : front[k] = x
             THEN front ELSE Append(front, x)

\* The instance of /api/config handles the request
Serve(req) == ConfigHandler(req) \/ StoreHandler(req)

\* res.ok
Ok(res) == res.status \in 200 .. 299

MaxGestures == 3
    \* what the user does on the page in one behaviour: submissions of the
    \* login form, clicks, and changes of the search box and the select

\* What the user types into the login form
TypedCredentials == { [username |-> Admin, password |-> <<"s">>],
                      [username |-> Admin, password |-> <<"w">>] }

\* What the user types into the search box
SearchQueries == { <<>>, <<"G", "P", "T">> }

AdminEnvs ==
    [DEFAULT_MODELS : { UndefStr, <<"a", ",", " ", "b">> },
     ADMIN_USERNAME : { UndefStr },
     ADMIN_PASSWORD : { UndefStr, <<"s">> }]

\* The value 'all' of the provider select
AllProviders == <<"a", "l", "l">>

\* AdminPage is mounted: the useState initial values, loadData has sent its
\* request for /api/models, and the second effect has read sessionStorage
AdminInit ==
    /\ HandlerInit
    /\ PriceIdle
    /\ UtilIdle
    /\ AppIdle
    /\ StaticIdle
    /\ env \in AdminEnvs
    /\ runtimeCache = Null
    /\ configStore \in { Null, InitialStore }
    /\ envReads = 0
    /\ cposted = [cache |-> Null, store |-> Null]
    /\ clast = [handler |-> "none"]
    /\ \E savedAuth \in { UndefStr, Base64(Admin \o <<":", "s">>) } :
          adminPage = [isAuthenticated |-> savedAuth # UndefStr,
                       authError |-> "",
                       allModels |-> Arr(<<>>),
                       selectedIds |-> <<>>,
                       loading |-> TRUE,
                       saving |-> FALSE,
                       saveMessage |-> "",
                       searchQuery |-> <<>>,
                       providerFilter |-> AllProviders,
                       adminAuth |-> savedAuth,
                       mounted |-> TRUE,
                       at |-> "models",
                       getRes |-> Undefined,
                       posts |-> <<>>,
                       gestures |-> 0]
    /\ adminLast = [op |-> "mount"]

\* What is kept of a step of the page itself: that it was one
Step(op) == [op |-> "page"]

\* What the page reads of a response: its status, and of its body the
\* default model list and the message
Read(res) ==
    [status |-> res.status,
     defaultModels |-> IF "defaultModels" \in DOMAIN res
                       THEN Arr(res.defaultModels) ELSE Undefined,
     message |-> IF "message" \in DOMAIN res THEN res.message ELSE "undefined"]

\* The page after a continuation that leaves it as `next`: while the
\* component is mounted all of it, afterwards only what is not React state
Commit(next) ==
    IF adminPage.mounted THEN next
    ELSE [adminPage EXCEPT !.adminAuth = next.adminAuth,
                           !.at = next.at,
                           !.getRes = next.getRes,
                           !.posts = next.posts]

\* The catch block of loadData
LoadFailed ==
    Commit([adminPage EXCEPT !.loading = FALSE, !.at = "done",
                             !.getRes = Undefined])

\* loadData: the promise of fetch('/api/models') settles. A response, of
\* whatever status, takes loadData to `await modelsRes.json()`; a rejection
\* takes it to the catch block.
LoadModels ==
    /\ adminPage # Null
    /\ adminPage.at = "models"
    /\ \/ adminPage' = [adminPage EXCEPT !.at = "modelsJson"]
       \/ adminPage' = LoadFailed
    /\ adminLast' = Step("loadModels")
    /\ UNCHANGED <<hvars, pvars, uvars, cvars, avars, svars>>

\* loadData: the promise of modelsRes.json() settles, and loadData runs to
\* `await fetch('/api/config')`, or to the end of its catch block. The body
\* is the payload with its models, the error body {error, message} that
\* /api/models sends with status 500, or no JSON. With the error body
\* allModels becomes undefined, the request for /api/config is sent, and
\* the render that follows throws in allModels.map, which unmounts the
\* component.
LoadModelsJson ==
    /\ adminPage # Null
    /\ adminPage.at = "modelsJson"
    /\ \/ adminPage' = [adminPage EXCEPT !.allModels = Arr(<<ModelGpt, ModelX>>),
                                         !.at = "config"]
       \/ adminPage' = [adminPage EXCEPT !.allModels = Undefined,
                                         !.at = "config",
                                         !.mounted = FALSE]
       \/ adminPage' = LoadFailed
    /\ adminLast' = Step("loadModelsJson")
    /\ UNCHANGED <<hvars, pvars, uvars, cvars, avars, svars>>

\* The instance handles the GET of loadData
ServeGet ==
    /\ adminPage # Null
    /\ adminPage.at = "config"
    /\ adminPage.getRes = Undefined
    /\ Serve(GetRequest)
    /\ adminPage' = [adminPage EXCEPT !.getRes = Read(clast'.resp)]
    /\ adminLast' = [op |-> "serve", by |-> "load"]
    /\ UNCHANGED <<hvars, pvars, uvars, avars, svars>>

\* loadData: the promise of fetch('/api/config') settles, with the response
\* of the handler or with a rejection
LoadConfig ==
    /\ adminPage # Null
    /\ adminPage.at = "config"
    /\ \/ /\ adminPage.getRes # Undefined
          /\ adminPage' = [adminPage EXCEPT !.at = "configJson"]
       \/ adminPage' = LoadFailed
    /\ adminLast' = Step("loadConfig")
    /\ UNCHANGED <<hvars, pvars, uvars, cvars, avars, svars>>

\* loadData: the promise of configRes.json() settles, and loadData runs to
\* its end, or, after a rejection, to the end of its catch block, which
\* leaves selectedIds as it is
LoadConfigJson ==
    /\ adminPage # Null
    /\ adminPage.at = "configJson"
    /\ LET configData == adminPage.getRes
           \* configData.defaultModels || []
           defaultModels == IF configData.defaultModels # Undefined
                            THEN configData.defaultModels.items ELSE <<>>
       IN  \/ adminPage' = Commit([adminPage EXCEPT
                                      !.selectedIds = SetOf(defaultModels),
                                      !.loading = FALSE,
                                      !.at = "done",
                                      !.getRes = Undefined])
           \/ adminPage' = LoadFailed
    /\ adminLast' = Step("loadConfigJson")
    /\ UNCHANGED <<hvars, pvars, uvars, cvars, avars, svars>>

\* The POST that handleLogin and handleSave send
PostSelected(credentials) ==
    [method |-> "POST",
     authorization |-> BasicPrefix \o credentials,
     body |-> [kind |-> "object", defaultModels |-> Arr(adminPage.selectedIds)]]

\* A request of the page on its way to the instance
Sent(by, credentials) ==
    [by |-> by, credentials |-> credentials, stage |-> "sent",
     req |-> PostSelected(credentials), res |-> Undefined]

\* list without its k-th element
Without(list, k) ==
    SubSeq(list, 1, k - 1) \o SubSeq(list, k + 1, Len(list))

\* The page after a gesture of the user that leaves it as `next`
Gesture(next) == [next EXCEPT !.gestures = @ + 1]

\* The user can still act
CanAct == adminPage.mounted /\ adminPage.gestures < MaxGestures

\* The login form is on the screen
LoginShown == CanAct /\ ~adminPage.isAuthenticated

\* The admin panel is on the screen
PanelShown == CanAct /\ adminPage.isAuthenticated

\* The toolbar, the model cards and the save bar are on the screen
ToolsShown == PanelShown /\ ~adminPage.loading

\* handleLogin, submitted from the login form, up to `await fetch(...)`
HandleLogin ==
    /\ adminPage # Null
    /\ LoginShown
    /\ \E typed \in TypedCredentials :
          LET credentials == Base64(typed.username \o <<":">> \o typed.password)
          IN  adminPage' = Gesture([adminPage EXCEPT
                               !.authError = "",
                               !.posts = Append(@, Sent("login", credentials))])
    /\ adminLast' = Step("login")
    /\ UNCHANGED <<hvars, pvars, uvars, cvars, avars, svars>>

\* handleSave, from the Save button (disabled while saving), up to its
\* early return or to `await fetch(...)`
HandleSave ==
    /\ adminPage # Null
    /\ ToolsShown
    /\ ~adminPage.saving
    /\ LET auth == adminPage.adminAuth
       IN  IF auth = UndefStr
           THEN adminPage' = Gesture([adminPage EXCEPT !.saving = TRUE,
                                               !.saveMessage = "",
                                               !.isAuthenticated = FALSE])
           ELSE adminPage' = Gesture([adminPage EXCEPT
                                 !.saving = TRUE,
                                 !.saveMessage = "",
                                 !.posts = Append(@, Sent("save", auth))])
    /\ adminLast' = Step("save")
    /\ UNCHANGED <<hvars, pvars, uvars, cvars, avars, svars>>

\* The instance handles a POST of the page
ServePost ==
    /\ adminPage # Null
    /\ \E k \in 1 .. Len(adminPage.posts) :
          LET post == adminPage.posts[k]
          IN  /\ post.stage = "sent"
              /\ Serve(post.req)
              /\ adminPage' = [adminPage EXCEPT !.posts[k] =
                                  [post EXCEPT !.stage = "served",
                                               !.req = Undefined,
                                               !.res = Read(clast'.resp)]]
              /\ adminLast' = [op |-> "serve", by |-> post.by]
    /\ UNCHANGED <<hvars, pvars, uvars, avars, svars>>

\* handleLogin: the promise of its fetch settles. An ok response
\* authenticates, another takes it to `await res.json()`, a rejection to
\* its catch block.
LoginResponse ==
    /\ adminPage # Null
    /\ \E k \in 1 .. Len(adminPage.posts) :
          LET post == adminPage.posts[k]
              rest == Without(adminPage.posts, k)
          IN  /\ post.by = "login"
              /\ post.stage \in {"sent", "served"}
              /\ \/ /\ post.stage = "served"
                    /\ adminPage' =
                          IF Ok(post.res)
                          THEN Commit([adminPage EXCEPT
                                          !.isAuthenticated = TRUE,
                                          !.adminAuth = post.credentials,
                                          !.posts = rest])
                          ELSE [adminPage EXCEPT !.posts[k].stage = "json"]
                 \/ adminPage' = Commit([adminPage EXCEPT
                                            !.authError = "Network error",
                                            !.posts = rest])
    /\ adminLast' = Step("loginResponse")
    /\ UNCHANGED <<hvars, pvars, uvars, cvars, avars, svars>>

\* handleLogin: the promise of res.json() settles, with the body or with a
\* rejection that takes it to its catch block
LoginJson ==
    /\ adminPage # Null
    /\ \E k \in 1 .. Len(adminPage.posts) :
          LET post == adminPage.posts[k]
              data == post.res
          IN  /\ post.by = "login"
              /\ post.stage = "json"
              /\ \E authError \in
                       { \* data.message || 'Login failed'
                         IF data.message # "undefined"
                         THEN data.message ELSE "Login failed",
                         "Network error" } :
                    adminPage' = Commit([adminPage EXCEPT
                                     !.authError = authError,
                                     !.posts = Without(adminPage.posts, k)])
    /\ adminLast' = Step("loginJson")
    /\ UNCHANGED <<hvars, pvars, uvars, cvars, avars, svars>>

\* handleSave: the promise of its fetch settles. An ok response ends it,
\* another takes it to `await res.json()` (a 401 logs out first), a
\* rejection to its catch block and its end.
SaveResponse ==
    /\ adminPage # Null
    /\ \E k \in 1 .. Len(adminPage.posts) :
          LET post == adminPage.posts[k]
              rest == Without(adminPage.posts, k)
          IN  /\ post.by = "save"
              /\ post.stage \in {"sent", "served"}
              /\ \/ /\ post.stage = "served"
                    /\ adminPage' =
                          IF Ok(post.res)
                          THEN Commit([adminPage EXCEPT
                                          !.saveMessage = "Saved",
                                          !.saving = FALSE,
                                          !.posts = rest])
                          ELSE IF post.res.status = 401
                          THEN Commit([adminPage EXCEPT
                                          !.isAuthenticated = FALSE,
                                          !.adminAuth = UndefStr,
                                          !.posts[k].stage = "json"])
                          ELSE [adminPage EXCEPT !.posts[k].stage = "json"]
                 \/ adminPage' = Commit([adminPage EXCEPT
                                            !.saveMessage = "Network error",
                                            !.saving = FALSE,
                                            !.posts = rest])
    /\ adminLast' = Step("saveResponse")
    /\ UNCHANGED <<hvars, pvars, uvars, cvars, avars, svars>>

\* handleSave: the promise of res.json() settles, with the body or with a
\* rejection that takes it to its catch block, and handleSave runs to its
\* end
SaveJson ==
    /\ adminPage # Null
    /\ \E k \in 1 .. Len(adminPage.posts) :
          LET post == adminPage.posts[k]
              data == post.res
          IN  /\ post.by = "save"
              /\ post.stage = "json"
              /\ \E saveMessage \in { "Save failed: " \o data.message,
                                       "Network error" } :
                    adminPage' = Commit([adminPage EXCEPT
                                     !.saveMessage = saveMessage,
                                     !.saving = FALSE,
                                     !.posts = Without(adminPage.posts, k)])
    /\ adminLast' = Step("saveJson")
    /\ UNCHANGED <<hvars, pvars, uvars, cvars, avars, svars>>

\* handleLogout, from the Logout button of the admin panel
HandleLogout ==
    /\ adminPage # Null
    /\ PanelShown
    /\ adminPage' = Gesture([adminPage EXCEPT !.isAuthenticated = FALSE,
                                      !.adminAuth = UndefStr])
    /\ adminLast' = Step("logout")
    /\ UNCHANGED <<hvars, pvars, uvars, cvars, avars, svars>>

\* The value of the useMemo `filteredModels`
filteredModels ==
    LET q == ToLowerCase(adminPage.searchQuery)
        Searched(m) ==
            \/ adminPage.searchQuery = <<>>
            \/ Includes(ToLowerCase(m.name), q)
            \/ Includes(ToLowerCase(m.id), q)
        Provided(m) ==
            \/ adminPage.providerFilter = AllProviders
            \/ m.provider = adminPage.providerFilter
    IN  SelectSeq(SelectSeq(adminPage.allModels.items, Searched), Provided)

\* selectedIds.has(id)
Selected(id) ==
    \E j \in 1 .. Len(adminPage.selectedIds) : adminPage.selectedIds[j] = id

\* toggleModel(id), from one of the model cards
ToggleModel ==
    /\ adminPage # Null
    /\ ToolsShown
    /\ \E k \in 1 .. Len(filteredModels) :
          LET id == filteredModels[k].id
          IN  adminPage' =
                Gesture([adminPage EXCEPT !.selectedIds =
                    IF Selected(id) THEN SelectSeq(@, LAMBDA x : x # id)
                    ELSE Append(@, id)])
    /\ adminLast' = Step("toggle")
    /\ UNCHANGED <<hvars, pvars, uvars, cvars, avars, svars>>

\* toggleAll, from the Select All / Deselect All button
ToggleAll ==
    /\ adminPage # Null
    /\ ToolsShown
    /\ LET ids == [k \in 1 .. Len(filteredModels) |-> filteredModels[k].id]
           Filtered(x) == \E k \in 1 .. Len(ids) : ids[k] = x
       IN  adminPage' =
             Gesture([adminPage EXCEPT !.selectedIds =
                 IF \A k \in 1 .. Len(ids) : Selected(ids[k])
                 THEN SelectSeq(@, LAMBDA x : ~Filtered(x))
                 ELSE SetOf(@ \o ids)])
    /\ adminLast' = Step("toggleAll")
    /\ UNCHANGED <<hvars, pvars, uvars, cvars, avars, svars>>

\* clearAll, from the Clear button
ClearAll ==
    /\ adminPage # Null
    /\ ToolsShown
    /\ adminPage' = Gesture([adminPage EXCEPT !.selectedIds = <<>>])
    /\ adminLast' = Step("clear")
    /\ UNCHANGED <<hvars, pvars, uvars, cvars, avars, svars>>

\* setSearchQuery, from the search box
SetSearchQuery ==
    /\ adminPage # Null
    /\ ToolsShown
    /\ \E q \in SearchQueries \ {adminPage.searchQuery} :
          adminPage' = Gesture([adminPage EXCEPT !.searchQuery = q])
    /\ adminLast' = Step("search")
    /\ UNCHANGED <<hvars, pvars, uvars, cvars, avars, svars>>

\* setProviderFilter, from the provider select: 'all' or one of `providers`
SetProviderFilter ==
    /\ adminPage # Null
    /\ ToolsShown
    /\ \E p \in ({AllProviders}
                   \cup { adminPage.allModels.items[k].provider :
                            k \in 1 .. Len(adminPage.allModels.items) })
                 \ {adminPage.providerFilter} :
          adminPage' = Gesture([adminPage EXCEPT !.providerFilter = p])
    /\ adminLast' = Step("provider")
    /\ UNCHANGED <<hvars, pvars, uvars, cvars, avars, svars>>

AdminNext ==
    \/ LoadModels
    \/ LoadModelsJson
    \/ ServeGet
    \/ LoadConfig
    \/ LoadConfigJson
    \/ HandleLogin
    \/ HandleSave
    \/ ServePost
    \/ LoginResponse
    \/ LoginJson
    \/ SaveResponse
    \/ SaveJson
    \/ HandleLogout
    \/ ToggleModel
    \/ ToggleAll
    \/ ClearAll
    \/ SetSearchQuery
    \/ SetProviderFilter

AdminSpec == AdminInit /\ [][AdminNext]_vars

\* C21 (as stated): the admin page changes the list held by the server only
\* in handleSave; a request of handleLogin, also one sent before loadData
\* has ended, leaves the list as it was.
C21_Original ==
    [][HeldList' # HeldList =>
          adminLast'.op = "serve" /\ adminLast'.by = "save"]_vars
----------------------------------------------------------------------------
(* The static file server (src/unnamed/part_000, lines 1-72)               *)
(*                                                                         *)
(* A path is the string of its characters. The file system is the set of   *)
(* the paths of its regular files; the content of a file is told by its    *)
(* path. The callback of http.createServer, the callback of fs.stat and    *)
(* the callback of fs.readFile are three steps, and the file system may    *)
(* change between them.                                                    *)

\* path.join(__dirname, '..', 'dist'), for a script kept in /app/scripts
DIST_DIR == <<"/", "a", "p", "p", "/", "d", "i", "s", "t">>

IndexHtml == <<"i", "n", "d", "e", "x", ".", "h", "t", "m", "l">>

\* The stack of directory names that the segments lead to from the root:
\* '' and '.' stay, '..' steps back and stays at the root
RECURSIVE Resolve(_, _)
Resolve(segments, stack) ==
    IF segments = <<>> THEN stack
    ELSE LET s == Head(segments)
         IN  IF s = <<>> \/ s = <<".">> THEN Resolve(Tail(segments), stack)
             ELSE IF s = <<".", ".">>
             THEN Resolve(Tail(segments),
                          IF stack = <<>> THEN <<>>
                          ELSE SubSeq(stack, 1, Len(stack) - 1))
             ELSE Resolve(Tail(segments), Append(stack, s))

\* path.normalize(p) for an absolute POSIX path: a trailing '/' is kept
Normalize(p) ==
    LET body == Join(Resolve(Split(p, "/"), <<>>), "/")
    IN  IF body = <<>> THEN <<"/">>
        ELSE <<"/">> \o body \o (IF p[Len(p)] = "/" THEN <<"/">> ELSE <<>>)

\* path.join(a, b) for non-empty a and b
PathJoin(a, b) == Normalize(a \o <<"/">> \o b)

MaxSegs == 3
    \* most segments of a request URL

\* The segments of the request URLs
UrlSegments ==
    { <<>>, <<".">>, <<".", ".">>, <<"d", "i", "s", "t">>, <<"d", "i", "s", "t", "-", "o", "l", "d">>, <<"f", ".", "j", "s">>, <<"s">> }

\* req.url: '/' followed by segments separated by '/'
Urls ==
    { <<"/">> \o Join(segs, "/") :
        segs \in UNION { [1 .. n -> UrlSegments] : n \in 0 .. MaxSegs } }

\* The files on the disk: the built application, a file in a directory next
\* to it whose name begins like its own, and a file of the directory above
FilesOutside == { <<"/", "a", "p", "p", "/", "d", "i", "s", "t", "-", "o", "l", "d", "/", "s">>, <<"/", "a", "p", "p", "/", "s">> }
FileSystems ==
    { FilesOutside \cup { DIST_DIR \o <<"/">> \o IndexHtml, <<"/", "a", "p", "p", "/", "d", "i", "s", "t", "/", "f", ".", "j", "s">> },
      FilesOutside \cup { <<"/", "a", "p", "p", "/", "d", "i", "s", "t", "/", "f", ".", "j", "s">> },
      FilesOutside \cup { DIST_DIR \o <<"/">> \o IndexHtml } }

\* The server is listening and no request has arrived
StaticInit ==
    /\ HandlerInit
    /\ PriceIdle
    /\ UtilIdle
    /\ ConfigIdle
    /\ AppIdle
    /\ AdminIdle
    /\ disk \in FileSystems
    /\ staticReq = [at |-> "idle"]

\* The callback of http.createServer, up to its answer 403 or to its call
\* of fs.stat
HandleStaticRequest ==
    /\ staticReq # Null
    /\ staticReq.at = "idle"
    /\ \E url \in Urls :
          LET filePath ==
                PathJoin(DIST_DIR, IF url = <<"/">> THEN IndexHtml ELSE url)
          IN  staticReq' =
                IF ~StartsWith(filePath, DIST_DIR)
                THEN [at |-> "done", url |-> url,
                      res |-> [status |-> 403, body |-> "Forbidden"]]
                ELSE [at |-> "stat", url |-> url, filePath |-> filePath]
    /\ UNCHANGED <<hvars, pvars, uvars, cvars, avars, mvars, disk>>

\* The callback of fs.stat: an error or a path that is no regular file
\* sends index.html instead; then fs.readFile is called
StatCallback ==
    /\ staticReq # Null
    /\ staticReq.at = "stat"
    /\ staticReq' =
          [at |-> "readFile", url |-> staticReq.url,
           filePath |-> IF staticReq.filePath \in disk THEN staticReq.filePath
                        ELSE PathJoin(DIST_DIR, IndexHtml)]
    /\ UNCHANGED <<hvars, pvars, uvars, cvars, avars, mvars, disk>>

\* The callback of fs.readFile: 404 on an error, else 200 with the file
ReadFileCallback ==
    /\ staticReq # Null
    /\ staticReq.at = "readFile"
    /\ staticReq' =
          [at |-> "done", url |-> staticReq.url,
           res |-> IF staticReq.filePath \notin disk
                   THEN [status |-> 404, body |-> "Not Found"]
                   ELSE [status |-> 200, file |-> staticReq.filePath]]
    /\ UNCHANGED <<hvars, pvars, uvars, cvars, avars, mvars, disk>>

\* The application is built anew or its build is removed while a request is
\* being handled
DiskChanges ==
    /\ staticReq # Null
    /\ staticReq.at \in {"stat", "readFile"}
    /\ disk' \in FileSystems \ {disk}
    /\ UNCHANGED <<hvars, pvars, uvars, cvars, avars, mvars, staticReq>>

StaticNext ==
    \/ HandleStaticRequest
    \/ StatCallback
    \/ ReadFileCallback
    \/ DiskChanges

StaticSpec == StaticInit /\ [][StaticNext]_vars

\* Whether the path is the directory DIST_DIR or lies inside it
InsideDist(p) ==
    \/ p = DIST_DIR
    \/ /\ Len(p) > Len(DIST_DIR)
       /\ SubSeq(p, 1, Len(DIST_DIR) + 1) = DIST_DIR \o <<"/">>

\* C27 (as stated): the server never sends a file from outside DIST_DIR;
\* a request whose URL, joined to DIST_DIR and normalised, is not inside
\* DIST_DIR is answered 403, also when it leads to a directory next to
\* DIST_DIR whose name begins with DIST_DIR's name.
C27_Original ==
    (staticReq # Null /\ staticReq.at = "done") =>
        /\ ~InsideDist(Normalize(DIST_DIR \o <<"/">> \o staticReq.url)) =>
              staticReq.res.status = 403
        /\ staticReq.res.status = 200 => InsideDist(staticReq.res.file)
====
